---- MODULE Spec2Model ----
(***************************************************************************)
(* A model of the templ language-server proxy (cmd/templ/lspcmd/handler.go).*)
(* The proxy sits between an editor client and gopls.  It mirrors every    *)
(* open .templ document, regenerates the Go text on each edit, keeps the   *)
(* source map of the last generation and rewrites URIs and positions of    *)
(* the messages that flow in both directions.                              *)
(*                                                                         *)
(* Strings that the code takes apart (URIs, document texts) are sequences  *)
(* of tokens, so that HasSuffix / TrimSuffix / path.Split and the text     *)
(* edits are computed and not assumed.                                     *)
(***************************************************************************)
EXTENDS Integers, Sequences, FiniteSets, TLC

\* documentContents, sourceMapCache: the two caches of the proxy
\* toClient: the channel to the worker; capacity: its capacity
\* handlers: the handlers the two connections have started (Handle for the
\*     messages of the client, proxyFromGoplsToClient for those of gopls), in
\*     the order the messages arrived: the message r, the place pc the
\*     handler has reached, the template text and the source map it holds
\*     and the calls evs it has made, in order
\* goplsOpen: the Go files gopls holds open, with the text it was given last
\* context: the context given to Init; worker: the worker started by Init
\* overlap: two handlers have been in flight at once
VARIABLES documentContents, sourceMapCache, toClient, capacity, handlers,
          goplsOpen, context, worker, overlap

vars == <<documentContents, sourceMapCache, toClient, capacity, handlers,
          goplsOpen, context, worker, overlap>>

(***************************************************************************)
(* Bounds of the model and constants of the program.                       *)
(***************************************************************************)
\* longest template text the model lets a document grow to
MaxTextLen == 2
\* the handlers are explored with a channel of this capacity
MaxPending == 1
\* number of handlers in flight at once
MaxHandlers == 2
\* capacity of the toClient channel
ToClientCap == 32

Min(a, b) == IF a < b THEN a ELSE b

(***************************************************************************)
(* strings.HasSuffix, strings.TrimSuffix and path.Split on token sequences.*)
(***************************************************************************)
HasSuffix(s, suffix) ==
    /\ Len(s) >= Len(suffix)
    /\ SubSeq(s, Len(s) - Len(suffix) + 1, Len(s)) = suffix

TrimSuffix(s, suffix) ==
    IF HasSuffix(s, suffix) THEN SubSeq(s, 1, Len(s) - Len(suffix)) ELSE s

\* tokens that end in a slash
DirTokens == {"file:///a/"}

\* path.Split: everything up to and including the last slash, and the rest
LastSlash(s) ==
    LET idx == {i \in 1..Len(s) : s[i] \in DirTokens}
    IN  IF idx = {} THEN 0 ELSE CHOOSE i \in idx : \A j \in idx : j <= i

SplitAt(s, i) == [base |-> SubSeq(s, 1, i), fileName |-> SubSeq(s, i + 1, Len(s))]

pathSplit(s) == SplitAt(s, LastSlash(s))

TemplExt == <<".templ">>
GoExt == <<"_templ.go">>

\* base + (strings.TrimSuffix(fileName, ".templ") + "_templ.go")
\* the suffix .templ is kept
GeneratedNameKeepsSuffix(split) == split.base \o (split.fileName \o GoExt)

GeneratedName(split) == split.base \o (TrimSuffix(split.fileName, TemplExt) \o GoExt)

GeneratedURI(uri) == GeneratedName(pathSplit(uri))

\* strings.TrimSuffix(uri, "_templ.go") + ".templ"
TemplateURI(uri) == TrimSuffix(uri, GoExt) \o TemplExt

IsTemplate(uri) == HasSuffix(pathSplit(uri).fileName, TemplExt)

(***************************************************************************)
(* Texts.  A text is a sequence of characters.  "a" is a character of a Go *)
(* expression (the generator maps it), "\n" ends a line, "!" makes the     *)
(* parser fail with a ParseError, "?" makes it fail with an error that is  *)
(* not a ParseError, "g" parses but makes the generator fail and "w" parses  *)
(* and generates but makes the writer of the canonical text fail.          *)
(***************************************************************************)
NL == "\n"

Pos(line, col) == [Line |-> line, Col |-> col]

\* template position (one-based line, zero-based column) of text[i]
NewlinesBefore(text, i) == Cardinality({j \in 1..(i - 1) : text[j] = NL})

LastNewlineBefore(text, i) ==
    LET idx == {j \in 1..(i - 1) : text[j] = NL}
    IN  IF idx = {} THEN 0 ELSE CHOOSE j \in idx : \A k \in idx : k <= j

PosOf(text, i) ==
    Pos(NewlinesBefore(text, i) + 1, i - 1 - LastNewlineBefore(text, i))

Contains(text, ch) == \E i \in 1..Len(text) : text[i] = ch

FirstIndex(text, ch) ==
    CHOOSE i \in 1..Len(text) :
        text[i] = ch /\ \A j \in 1..(i - 1) : text[j] # ch

LastIndex(text, ch) ==
    CHOOSE i \in 1..Len(text) :
        text[i] = ch /\ \A j \in (i + 1)..Len(text) : text[j] # ch

\* parser.ParseString: the template, or a ParseError{Message, From, To},
\* or another error
ParseString(text) ==
    IF Contains(text, "!")
    THEN [ok |-> FALSE, isParseError |-> TRUE, Message |-> "unexpected !",
          From |-> PosOf(text, FirstIndex(text, "!")),
          To |-> PosOf(text, LastIndex(text, "!") + 1),
          template |-> <<>>]
    ELSE IF Contains(text, "?")
    THEN [ok |-> FALSE, isParseError |-> FALSE, Message |-> "template not found",
          From |-> Pos(0, 0), To |-> Pos(0, 0), template |-> <<>>]
    ELSE [ok |-> TRUE, isParseError |-> FALSE, Message |-> "",
          From |-> Pos(0, 0), To |-> Pos(0, 0), template |-> text]

\* the source map of a template: every expression character of the
\* template, at (line, col), is written at (line + 1, col + 1) of the Go text
SourceMapItem(from) == [From |-> from, To |-> Pos(from.Line + 1, from.Col + 1)]

SourceMapOf(template) ==
    {SourceMapItem(PosOf(template, i)) :
        i \in {j \in 1..Len(template) : template[j] = "a"}}

\* generator.Generate: the Go text and the source map, or an error
Generate(template) ==
    IF Contains(template, "g")
    THEN [ok |-> FALSE, text |-> <<>>, sm |-> {}]
    ELSE [ok |-> TRUE, text |-> <<"package", NL>> \o template,
          sm |-> SourceMapOf(template)]

\* template.Write: the canonical text of a template, or an error
WriteTemplate(template) ==
    IF Contains(template, "w") THEN [ok |-> FALSE, text |-> <<>>]
    ELSE [ok |-> TRUE, text |-> <<"fmt">> \o template]

\* SourceMap.TargetPositionFromSource(line, col)
TargetPositionFromSource(sm, line, col) ==
    IF \E m \in sm : m.From = Pos(line, col)
    THEN [ok |-> TRUE, pos |-> (CHOOSE m \in sm : m.From = Pos(line, col)).To]
    ELSE [ok |-> FALSE, pos |-> Pos(0, 0)]

\* SourceMap.SourcePositionFromTarget(line, col)
SourcePositionFromTarget(sm, line, col) ==
    IF \E m \in sm : m.To = Pos(line, col)
    THEN [ok |-> TRUE, pos |-> (CHOOSE m \in sm : m.To = Pos(line, col)).From]
    ELSE [ok |-> FALSE, pos |-> Pos(0, 0)]

(***************************************************************************)
(* LSP positions and ranges (zero-based line, zero-based character).       *)
(***************************************************************************)
LSPPos(line, character) == [Line |-> line, Character |-> character]

LSPRange(start, end) == [Start |-> start, End |-> end]

\* the column is taken as the character
templatePositionToLSPPositionSameColumn(p) == LSPPos(p.Line - 1, p.Col)

templatePositionToLSPPosition(p) == LSPPos(p.Line - 1, p.Col + 1)

(***************************************************************************)
(* The two caches: Go maps from URI to contents / source map.              *)
(***************************************************************************)
EmptyMap == [u \in {} |-> {}]

MapSet(m, k, v) == [x \in (DOMAIN m) \cup {k} |-> IF x = k THEN v ELSE m[x]]

MapDelete(m, k) == [x \in (DOMAIN m) \ {k} |-> m[x]]

MapHas(m, k) == k \in DOMAIN m

(***************************************************************************)
(* The Document Store (documentContents): Set, Get, Delete and Apply.      *)
(* A content change is a full replace (HasRange = FALSE) or a replace of   *)
(* the range Start..End given in client coordinates.                       *)
(***************************************************************************)
FullChange(text) ==
    [HasRange |-> FALSE, Range |-> LSPRange(LSPPos(0, 0), LSPPos(0, 0)), Text |-> text]

RangeChange(start, end, text) ==
    [HasRange |-> TRUE, Range |-> LSPRange(start, end), Text |-> text]

NthNewline(text, n) ==
    CHOOSE i \in 1..Len(text) :
        text[i] = NL /\ Cardinality({j \in 1..i : text[j] = NL}) = n

NewlineCount(text) == Cardinality({j \in 1..Len(text) : text[j] = NL})

\* the offset of a character of a line that starts at lineStart and ends at
\* lineEnd, -1 when the line has no such character
OffsetInLine(lineStart, lineEnd, character) ==
    IF lineStart + character > lineEnd THEN -1 ELSE lineStart + character

\* the offset of a client position in a text of n newlines, -1 when it is
\* out of range
OffsetIn(text, n, p) ==
    IF p.Line > n THEN -1
    ELSE OffsetInLine(IF p.Line = 0 THEN 0 ELSE NthNewline(text, p.Line),
                      IF p.Line < n THEN NthNewline(text, p.Line + 1) - 1 ELSE Len(text),
                      p.Character)

OffsetOf(text, p) == OffsetIn(text, NewlineCount(text), p)

replaceRange(text, from, to, newText) ==
    IF from < 0 \/ to < 0 \/ from > to
    THEN [ok |-> FALSE, text |-> text]
    ELSE [ok |-> TRUE,
          text |-> SubSeq(text, 1, from) \o newText \o SubSeq(text, to + 1, Len(text))]

applyContentChange(text, change) ==
    IF ~change.HasRange THEN [ok |-> TRUE, text |-> change.Text]
    ELSE replaceRange(text, OffsetOf(text, change.Range.Start),
                      OffsetOf(text, change.Range.End), change.Text)

\* the changes are applied in order, each to the result of the one before
RECURSIVE applyContentChanges(_, _)
applyRest(first, rest) ==
    IF ~first.ok THEN first ELSE applyContentChanges(first.text, rest)

applyContentChanges(text, changes) ==
    IF changes = <<>> THEN [ok |-> TRUE, text |-> text]
    ELSE applyRest(applyContentChange(text, Head(changes)), Tail(changes))

\* documentContents.Apply: fails when the document is unknown or a range is
\* out of range, and then leaves the store as it was
applyUpdated(docs, uri, updated) ==
    IF ~updated.ok THEN [ok |-> FALSE, text |-> <<>>, docs |-> docs]
    ELSE [ok |-> TRUE, text |-> updated.text, docs |-> MapSet(docs, uri, updated.text)]

documentContentsApply(docs, uri, changes) ==
    IF ~MapHas(docs, uri) THEN [ok |-> FALSE, text |-> <<>>, docs |-> docs]
    ELSE applyUpdated(docs, uri, applyContentChanges(docs[uri], changes))

(***************************************************************************)
(* Messages placed on the toClient channel.                                *)
(***************************************************************************)
PublishDiagnostics == "textDocument/publishDiagnostics"
DidOpen == "textDocument/didOpen"
DidChange == "textDocument/didChange"
DidSave == "textDocument/didSave"
DidClose == "textDocument/didClose"
Completion == "textDocument/completion"

sendDiagnosticClearNotification(uri) ==
    <<[Method |-> PublishDiagnostics, Notif |-> TRUE,
       Params |-> [URI |-> uri, Diagnostics |-> <<>>]]>>

sendParseErrorDiagnosticNotifications(uri, err) ==
    IF ~err.isParseError THEN <<>>
    ELSE <<[Method |-> PublishDiagnostics, Notif |-> TRUE,
            Params |-> [URI |-> uri,
                        Diagnostics |->
                          <<[Range |-> LSPRange(templatePositionToLSPPosition(err.From),
                                                templatePositionToLSPPosition(err.To)),
                             Severity |-> "Error", Code |-> "", Source |-> "templ",
                             Message |-> err.Message]>>]]>>

(***************************************************************************)
(* The documents and the params of the client's notifications.             *)
(***************************************************************************)
U1 == <<"file:///a/", "b", ".templ">>
U2 == <<"file:///a/", "c", ".templ">>
P1 == <<"file:///a/", "main", ".go">>

ClientURIs == {U1, P1}

SampleTexts ==
    {<<"a">>, <<"!">>, <<"?">>, <<"g">>, <<"w">>, <<"a", "a">>, <<NL, "a">>, <<"a", NL, "a">>}

Texts == {t \in SampleTexts : Len(t) <= MaxTextLen}

SampleChanges ==
    {<<FullChange(<<"a", "a">>)>>,
     <<FullChange(<<"g">>)>>,
     <<RangeChange(LSPPos(0, 0), LSPPos(0, 1), <<"!">>)>>,
     <<RangeChange(LSPPos(0, 1), LSPPos(0, 1), <<"a">>)>>,
     <<RangeChange(LSPPos(1, 0), LSPPos(1, 1), <<>>)>>,
     <<RangeChange(LSPPos(0, 0), LSPPos(0, 0), <<"!">>),
       RangeChange(LSPPos(0, 0), LSPPos(0, 2), <<"a">>)>>}

\* params that json.Unmarshal rejects
BadParams == [Valid |-> FALSE]

DidOpenParams ==
    {[Valid |-> TRUE, URI |-> u, Text |-> t] : u \in ClientURIs, t \in Texts}
    \cup {BadParams}

DidChangeParams ==
    {[Valid |-> TRUE, URI |-> u, ContentChanges |-> c] :
        u \in ClientURIs, c \in SampleChanges}
    \cup {BadParams}

DocumentParams == {[Valid |-> TRUE, URI |-> u] : u \in ClientURIs} \cup {BadParams}

(***************************************************************************)
(* What a handler did, in the order it did it: the messages it placed on   *)
(* toClient, the calls and notifications it sent to gopls and to the       *)
(* client, and its reply.                                                  *)
(***************************************************************************)
EvEnqueue(msg) == [Ev |-> "toClient", Method |-> msg.Method, Params |-> msg.Params]

EvGoplsNotify(method, params) == [Ev |-> "gopls.Notify", Method |-> method, Params |-> params]

EvGoplsCall(method, params) == [Ev |-> "gopls.Call", Method |-> method, Params |-> params]

EvClientNotify(method, params) == [Ev |-> "client.Notify", Method |-> method, Params |-> params]

EvGoplsResult(method, result) == [Ev |-> "gopls.Result", Method |-> method, Params |-> result]

EvReply(method, result) == [Ev |-> "conn.Reply", Method |-> method, Params |-> result]

EvClientCall(method, params) == [Ev |-> "client.Call", Method |-> method, Params |-> params]

EvClientResult(method, result) == [Ev |-> "client.Result", Method |-> method, Params |-> result]

Enqueued(out) == [i \in 1..Len(out) |-> EvEnqueue(out[i])]

ClientNotification(method, params) ==
    [From |-> "client", Notif |-> TRUE, Method |-> method, Params |-> params]

ClientRequest(method, params) ==
    [From |-> "client", Notif |-> FALSE, Method |-> method, Params |-> params]

GoplsNotification(method, params) ==
    [From |-> "gopls", Notif |-> TRUE, Method |-> method, Params |-> params]

GoplsRequest(method, params) ==
    [From |-> "gopls", Notif |-> FALSE, Method |-> method, Params |-> params]

\* the zero toClientRequest
NoMessage ==
    [Method |-> "", Notif |-> FALSE, Params |-> [URI |-> <<>>, Diagnostics |-> <<>>]]

(***************************************************************************)
(* The source map a handler holds: the result of p.sourceMapCache.Get,     *)
(* read under the mutex of the cache and used after it is released.        *)
(***************************************************************************)
\* sourceMapCache.Get: the map and ok, no map when the URI has no entry
CachedSourceMap(cache, uri) ==
    IF MapHas(cache, uri) THEN [ok |-> TRUE, sourceMap |-> cache[uri]]
    ELSE [ok |-> FALSE, sourceMap |-> {}]

(***************************************************************************)
(* gopls -> client: textDocument/publishDiagnostics is rewritten to the    *)
(* template with the source map the handler read from the cache; without   *)
(* a map the rewrite fails and the notification is dropped.                *)
(***************************************************************************)
\* the line of the start is not moved to the client's zero-based lines
rewriteDiagnosticStartKeepsLine(item, start) ==
    IF start.ok
    THEN [item EXCEPT !.Range.Start = LSPPos(start.pos.Line, start.pos.Col + 1)]
    ELSE item

rewriteDiagnosticStart(item, start) ==
    IF start.ok
    THEN [item EXCEPT !.Range.Start = LSPPos(start.pos.Line - 1, start.pos.Col + 1)]
    ELSE item

rewriteDiagnosticEnd(item, end) ==
    IF end.ok
    THEN [item EXCEPT !.Range.End = templatePositionToLSPPosition(end.pos)]
    ELSE item

rewriteDiagnostic(sm, item) ==
    rewriteDiagnosticEnd(
        rewriteDiagnosticStart(
            item,
            SourcePositionFromTarget(sm, item.Range.Start.Line + 1,
                                     item.Range.Start.Character)),
        SourcePositionFromTarget(sm, item.Range.End.Line + 1, item.Range.End.Character))

\* without a cached map the notification goes on as it came
rewriteDiagnosticsForPassThrough(params, uri, ok, sm) ==
    IF ~ok
    THEN [err |-> FALSE, Params |-> params]
    ELSE [err |-> FALSE,
          Params |-> [Valid |-> TRUE, URI |-> uri,
                      Diagnostics |->
                        [i \in 1..Len(params.Diagnostics) |->
                            rewriteDiagnostic(sm, params.Diagnostics[i])]]]

\* from the result ok, sm of sourceMapCache.Get on
rewriteDiagnosticsFor(params, uri, ok, sm) ==
    IF ~ok
    THEN [err |-> TRUE, Params |-> params]
    ELSE [err |-> FALSE,
          Params |-> [Valid |-> TRUE, URI |-> uri,
                      Diagnostics |->
                        [i \in 1..Len(params.Diagnostics) |->
                            rewriteDiagnostic(sm, params.Diagnostics[i])]]]

rewriteGoplsPublishDiagnostics(r, ok, sm) ==
    IF ~r.Params.Valid
    THEN [err |-> TRUE, Params |-> r.Params]
    ELSE rewriteDiagnosticsFor(r.Params, TemplateURI(r.Params.URI), ok, sm)

(***************************************************************************)
(* gopls -> client, the other messages: window/showMessage is dropped when *)
(* its message starts with "Do not edit this file!", every other           *)
(* notification is passed to the client as it is; a call of gopls is       *)
(* passed to the client and the client's result is the reply to gopls.     *)
(***************************************************************************)
ShowMessage == "window/showMessage"

HasPrefix(s, prefix) == Len(s) >= Len(prefix) /\ SubSeq(s, 1, Len(prefix)) = prefix

DoNotEdit == <<"Do not edit this file!">>

\* the message is never held back
shouldSuppressWindowShowMessageNever(r) == FALSE

shouldSuppressWindowShowMessage(r) ==
    IF ~r.Params.Valid THEN FALSE ELSE HasPrefix(r.Params.Message, DoNotEdit)

\* the result client.Call leaves: nil when the call failed
ClientResult(reply) == IF reply.ok THEN reply.Result ELSE "null"

(***************************************************************************)
(* textDocument/completion: a snippet list for the triggers "<" and "{",   *)
(* otherwise the request is rewritten to the Go file, gopls is called and  *)
(* the text edits of its reply are rewritten back to the template.         *)
(***************************************************************************)
CompletionItem(label) ==
    [Label |-> label, HasTextEdit |-> FALSE,
     TextEdit |-> [Range |-> LSPRange(LSPPos(0, 0), LSPPos(0, 0)), NewText |-> ""]]

CompletionEdit(label, start, end) ==
    [Label |-> label, HasTextEdit |-> TRUE,
     TextEdit |-> [Range |-> LSPRange(start, end), NewText |-> label]]

htmlSnippets == <<CompletionItem("<div>"), CompletionItem("<a>")>>

templateSnippets == <<CompletionItem("{% templ %}")>>

\* the target column is taken as the character
rewriteCompletionMappedSameColumn(params, to) ==
    [err |-> FALSE,
     Params |-> [params EXCEPT
                   !.Position = IF to.ok THEN LSPPos(to.pos.Line - 1, to.pos.Col) ELSE @,
                   !.URI = GeneratedURI(@)]]

rewriteCompletionMapped(params, to) ==
    [err |-> FALSE,
     Params |-> [params EXCEPT
                   !.Position = IF to.ok THEN LSPPos(to.pos.Line - 1, to.pos.Col - 1) ELSE @,
                   !.URI = GeneratedURI(@)]]

\* from the result ok, sm of sourceMapCache.Get on; no Get is made for a
\* file that is no template
rewriteCompletionRequest(params, ok, sm) ==
    IF ~IsTemplate(params.URI)
    THEN [err |-> FALSE, Params |-> params]
    ELSE IF ~ok
    THEN [err |-> TRUE, Params |-> params]
    ELSE rewriteCompletionMapped(
             params,
             TargetPositionFromSource(sm, params.Position.Line + 1,
                                      params.Position.Character))

rewriteItemStart(item, start) ==
    IF start.ok
    THEN [item EXCEPT !.TextEdit.Range.Start = LSPPos(start.pos.Line - 1, start.pos.Col + 1)]
    ELSE item

rewriteItemEnd(item, end) ==
    IF end.ok
    THEN [item EXCEPT !.TextEdit.Range.End = LSPPos(end.pos.Line - 1, end.pos.Col + 1)]
    ELSE item

rewriteItem(sm, item) ==
    IF ~item.HasTextEdit THEN item
    ELSE rewriteItemEnd(
             rewriteItemStart(
                 item,
                 SourcePositionFromTarget(sm, item.TextEdit.Range.Start.Line + 1,
                                          item.TextEdit.Range.Start.Character)),
             SourcePositionFromTarget(sm, item.TextEdit.Range.End.Line + 1,
                                      item.TextEdit.Range.End.Character))

\* from the result ok, sm of sourceMapCache.Get on
rewriteCompletionResponse(resp, ok, sm) ==
    IF ~ok
    THEN [err |-> TRUE, resp |-> resp]
    ELSE [err |-> FALSE,
          resp |-> [Items |-> [i \in 1..Len(resp.Items) |-> rewriteItem(sm, resp.Items[i])]]]

\* the params as json.Unmarshal leaves them: the zero value when it fails
CompletionParams(r) ==
    IF r.Params.Valid THEN r.Params
    ELSE [Valid |-> FALSE, URI |-> <<>>, Position |-> LSPPos(0, 0),
          TriggerCharacter |-> ""]

\* the response as gopls.Call leaves it: empty when the call fails
CompletionList(reply) == IF reply.ok THEN [Items |-> reply.Items] ELSE [Items |-> <<>>]

(***************************************************************************)
(* Requests of the client.  Every request but formatting and the snippet   *)
(* completions calls gopls: the handler sends the call, is suspended until *)
(* it returns and then replies.                                            *)
(***************************************************************************)
Initialize == "initialize"

\* an InitializeResult: the capabilities the proxy looks at
Capabilities(hasCompletion, triggers, hasCommands, commands, formatting) ==
    [HasCompletionProvider |-> hasCompletion, TriggerCharacters |-> triggers,
     HasExecuteCommandProvider |-> hasCommands, Commands |-> commands,
     DocumentFormattingProvider |-> formatting]

\* the response as gopls.Call leaves it: the zero value when the call fails
InitializeResult(reply) ==
    IF reply.ok THEN reply.Result ELSE Capabilities(FALSE, <<>>, FALSE, <<>>, FALSE)

\* the capabilities as proxyInitialize changes them
filterCapabilities(resp) ==
    Capabilities(TRUE, resp.TriggerCharacters \o <<"{", "<">>, TRUE, <<>>, TRUE)

\* the response as gopls.Call leaves it: nil when the call fails
CallResult(reply) == IF reply.ok THEN reply.Result ELSE "null"

GoplsCompletionReplies ==
    {[ok |-> FALSE, Items |-> <<>>],
     [ok |-> TRUE, Items |-> <<CompletionItem("fmt")>>],
     [ok |-> TRUE, Items |-> <<CompletionEdit("len", LSPPos(1, 1), LSPPos(1, 2))>>],
     [ok |-> TRUE, Items |-> <<CompletionEdit("cap", LSPPos(0, 0), LSPPos(1, 1)),
                               CompletionEdit("new", LSPPos(1, 2), LSPPos(1, 2))>>]}

GoplsInitializeReplies ==
    {[ok |-> FALSE, Result |-> Capabilities(FALSE, <<>>, FALSE, <<>>, FALSE)],
     [ok |-> TRUE, Result |-> Capabilities(FALSE, <<>>, FALSE, <<>>, FALSE)],
     [ok |-> TRUE, Result |-> Capabilities(TRUE, <<".">>, TRUE, <<"gopls.tidy">>, FALSE)],
     [ok |-> TRUE, Result |-> Capabilities(TRUE, <<".", "{">>, TRUE, <<>>, TRUE)],
     [ok |-> TRUE, Result |-> Capabilities(TRUE, <<"<", ".">>, FALSE, <<>>, FALSE)]}

GoplsReplies ==
    {[ok |-> TRUE, Result |-> "contents", Error |-> ""],
     [ok |-> FALSE, Result |-> "null", Error |-> "no package for file"]}

\* the trigger "{" is answered with the HTML snippets
snippetsOneList(trigger) == htmlSnippets

\* proxyCompletion: the list of the trigger
snippets(trigger) == IF trigger = "<" THEN htmlSnippets ELSE templateSnippets

(***************************************************************************)
(* textDocument/formatting: the stored text is parsed and written back in  *)
(* its canonical form; gopls is not asked.                                 *)
(***************************************************************************)
Formatting == "textDocument/formatting"

\* the params as json.Unmarshal leaves them: the zero value when it fails
FormattingParams(r) == IF r.Params.Valid THEN r.Params ELSE [Valid |-> FALSE, URI |-> <<>>]

\* documentContents.Get: no contents when the document is not stored
StoredContents(uri) == IF MapHas(documentContents, uri) THEN documentContents[uri] ELSE <<>>

TextEdit(start, end, text) == [Range |-> LSPRange(start, end), NewText |-> text]

\* the edit ends on the line of the last newline
formattingWrittenShort(lines, written) ==
    IF ~written.ok THEN <<>>
    ELSE <<TextEdit(LSPPos(0, 0), LSPPos(lines, 0), written.text)>>

\* from template.Write on: no edit when it fails, else the edit of the
\* whole text
formattingWritten(lines, written) ==
    IF ~written.ok THEN <<>>
    ELSE <<TextEdit(LSPPos(0, 0), LSPPos(lines + 1, 0), written.text)>>

\* from parser.ParseString on: the messages for toClient and the reply
formattingParsed(uri, lines, parsed) ==
    IF ~parsed.ok
    THEN [out |-> sendParseErrorDiagnosticNotifications(uri, parsed), resp |-> <<>>]
    ELSE [out |-> sendDiagnosticClearNotification(uri),
          resp |-> formattingWritten(lines, WriteTemplate(parsed.template))]

formattingContents(uri, contents) ==
    formattingParsed(uri, NewlineCount(contents), ParseString(contents))

(***************************************************************************)
(* NewProxy and Init: empty caches, an empty channel, the worker in its    *)
(* loop.                                                                   *)
(***************************************************************************)
NewProxy(cap) ==
    /\ documentContents = EmptyMap
    /\ sourceMapCache = EmptyMap
    /\ toClient = <<>>
    /\ capacity = cap
    /\ handlers = <<>>
    /\ goplsOpen = EmptyMap
    /\ context = "live"
    /\ worker = [pc |-> "range", r |-> NoMessage, err |-> FALSE]
    /\ overlap = FALSE

Init == NewProxy(Min(ToClientCap, MaxPending))

(***************************************************************************)
(* Handlers.  Each connection calls its handler for every message, in      *)
(* arrival order, and the calls run side by side.  A step of a handler is  *)
(* one access to a cache (each under that cache's mutex), one send on      *)
(* toClient, one notification, the sending of a call, the return of that   *)
(* call, or one reply.  What a handler has read from a cache it holds and  *)
(* uses in its later steps.                                                *)
(***************************************************************************)
\* got: the handler holds a template text, text: that text; ok, sourceMap:
\* the result of the handler's last sourceMapCache.Get
Handler(r, pc) ==
    [r |-> r, pc |-> pc, got |-> FALSE, text |-> <<>>, ok |-> FALSE, sourceMap |-> {},
     evs |-> <<>>]

\* the handlers that have not returned
Running == SelectSeq(handlers, LAMBDA h : h.pc # "done")

\* a send on the toClient channel blocks while the channel is full
Room == Len(toClient) < capacity

\* the request calls gopls: every request but formatting and the completion
\* on a trigger of the templ snippets
CallsGopls(r) ==
    /\ r.Method # Formatting
    /\ r.Method = Completion => CompletionParams(r).TriggerCharacter \notin {"<", "{"}

\* where proxyFromGoplsToClient takes the message first
FirstStepFromGopls(r) ==
    IF ~r.Notif THEN "CallClient"
    ELSE CASE r.Method = ShowMessage ->
                IF shouldSuppressWindowShowMessage(r) THEN "Drop" ELSE "NotifyClient"
           [] r.Method = PublishDiagnostics ->
                IF ~r.Params.Valid THEN "Drop" ELSE "GetDiagnostics"
           [] OTHER -> "NotifyClient"

\* where Handle takes the message first
FirstStep(r) ==
    IF r.From = "gopls" THEN FirstStepFromGopls(r)
    ELSE IF r.Notif
    THEN IF r.Method \notin {DidOpen, DidChange, DidSave, DidClose} THEN "Notify"
         ELSE IF ~r.Params.Valid THEN "Fail"
         ELSE IF ~IsTemplate(r.Params.URI) THEN "Notify"
         ELSE CASE r.Method = DidOpen -> "Set"
                [] r.Method = DidChange -> "Apply"
                [] r.Method = DidClose -> "DeleteDocument"
                [] OTHER -> "Notify"
    ELSE IF r.Method = Formatting THEN "Get"
         ELSE IF ~CallsGopls(r) THEN "Reply"
         ELSE IF r.Method = Completion /\ IsTemplate(CompletionParams(r).URI) THEN "GetRequest"
         ELSE "Request"

\* the handlers the connections keep track of: none of them once all have
\* returned
Started == IF Running = <<>> THEN <<>> ELSE handlers

\* a connection starts the handler of r
Arrives(r) ==
    /\ Len(Started) < MaxHandlers
    /\ handlers' = Append(Started, Handler(r, FirstStep(r)))
    /\ overlap' = (overlap \/ Running # <<>>)
    /\ UNCHANGED <<documentContents, sourceMapCache, toClient, capacity, goplsOpen,
                   context, worker>>

\* a message arrives: one of idle while no handler is in flight, one of busy
\* while one is
ArrivesFrom(idle, busy) ==
    \E r \in (IF Running = <<>> THEN idle ELSE busy) : Arrives(r)

\* the handler i goes on as h
Moves(i, h) ==
    /\ handlers' = [handlers EXCEPT ![i] = h]
    /\ UNCHANGED <<capacity, context, worker, overlap>>

\* the handler i goes on to pc, having made the calls evs
Proceeds(i, pc, evs) == Moves(i, [handlers[i] EXCEPT !.pc = pc, !.evs = @ \o evs])

\* the handler i obtains the text and goes on to pc
Obtains(i, pc, text) == Moves(i, [handlers[i] EXCEPT !.pc = pc, !.got = TRUE, !.text = text])

\* the handler i gets read, the result of sourceMapCache.Get, and goes on to pc
Reads(i, pc, read) ==
    /\ Moves(i, [handlers[i] EXCEPT !.pc = pc, !.ok = read.ok, !.sourceMap = read.sourceMap])
    /\ UNCHANGED <<documentContents, sourceMapCache, toClient, goplsOpen>>

(***************************************************************************)
(* Proxy.Handle, notifications: rewrite by method, then forward to gopls   *)
(* unless the rewrite failed.                                              *)
(***************************************************************************)
\* the rewrite fails on the params: Handle logs the error and returns
ConcFailOf(i) ==
    /\ i \in 1..Len(handlers)
    /\ handlers[i].pc = "Fail"
    /\ Proceeds(i, "done", <<>>)
    /\ UNCHANGED <<documentContents, sourceMapCache, toClient, goplsOpen>>

\* rewriteDidOpenRequest: p.documentContents.Set
ConcSetOf(i) ==
    /\ i \in 1..Len(handlers)
    /\ handlers[i].pc = "Set"
    /\ documentContents' =
           MapSet(documentContents, handlers[i].r.Params.URI, handlers[i].r.Params.Text)
    /\ Obtains(i, "Parse", handlers[i].r.Params.Text)
    /\ UNCHANGED <<sourceMapCache, toClient, goplsOpen>>

\* rewriteDidChangeRequest: p.documentContents.Apply; the handler returns
\* when it fails
ConcApplied(i, applied) ==
    /\ Len(applied.text) <= MaxTextLen
    /\ documentContents' = applied.docs
    /\ IF applied.ok THEN Obtains(i, "Parse", applied.text) ELSE Proceeds(i, "done", <<>>)
    /\ UNCHANGED <<sourceMapCache, toClient, goplsOpen>>

ConcApplyOf(i) ==
    /\ i \in 1..Len(handlers)
    /\ handlers[i].pc = "Apply"
    /\ ConcApplied(i, documentContentsApply(documentContents, handlers[i].r.Params.URI,
                                            handlers[i].r.Params.ContentChanges))

\* a parse that fails evicts the cached map
ConcParsedEvicts(i, parsed, out) ==
    /\ out = <<>> \/ Room
    /\ toClient' = toClient \o out
    /\ sourceMapCache' = IF parsed.ok THEN sourceMapCache
                         ELSE MapDelete(sourceMapCache, handlers[i].r.Params.URI)
    /\ Proceeds(i, IF parsed.ok THEN "Generate" ELSE "done", Enqueued(out))
    /\ UNCHANGED <<documentContents, goplsOpen>>

\* parser.ParseString, then the diagnostic or the clear is sent on toClient;
\* the handler returns when the parse failed
ConcParsed(i, parsed, out) ==
    /\ out = <<>> \/ Room
    /\ toClient' = toClient \o out
    /\ Proceeds(i, IF parsed.ok THEN "Generate" ELSE "done", Enqueued(out))
    /\ UNCHANGED <<documentContents, sourceMapCache, goplsOpen>>

\* no clear is sent
ConcParseOutNoClear(uri, parsed) ==
    IF parsed.ok THEN <<>>
    ELSE sendParseErrorDiagnosticNotifications(uri, parsed)

ConcParseOut(uri, parsed) ==
    IF parsed.ok THEN sendDiagnosticClearNotification(uri)
    ELSE sendParseErrorDiagnosticNotifications(uri, parsed)

ConcParseOf(i) ==
    /\ i \in 1..Len(handlers)
    /\ handlers[i].pc = "Parse"
    /\ ConcParsed(i, ParseString(handlers[i].text),
                  ConcParseOut(handlers[i].r.Params.URI, ParseString(handlers[i].text)))

\* the map is cached under the URI of the Go file
ConcGeneratedWrongKey(i, gen) ==
    /\ sourceMapCache' =
           IF gen.ok
           THEN MapSet(sourceMapCache, GeneratedURI(handlers[i].r.Params.URI), gen.sm)
           ELSE sourceMapCache
    /\ Proceeds(i, IF gen.ok THEN "Notify" ELSE "done", <<>>)
    /\ UNCHANGED <<documentContents, toClient, goplsOpen>>

\* the new map of a didChange is not cached
ConcGeneratedStale(i, gen) ==
    /\ sourceMapCache' =
           IF gen.ok /\ handlers[i].r.Method = DidOpen
           THEN MapSet(sourceMapCache, handlers[i].r.Params.URI, gen.sm)
           ELSE sourceMapCache
    /\ Proceeds(i, IF gen.ok THEN "Notify" ELSE "done", <<>>)
    /\ UNCHANGED <<documentContents, toClient, goplsOpen>>

\* generator.Generate, then p.sourceMapCache.Set; the handler returns when
\* the generation failed
ConcGenerated(i, gen) ==
    /\ sourceMapCache' =
           IF gen.ok THEN MapSet(sourceMapCache, handlers[i].r.Params.URI, gen.sm)
           ELSE sourceMapCache
    /\ Proceeds(i, IF gen.ok THEN "Notify" ELSE "done", <<>>)
    /\ UNCHANGED <<documentContents, toClient, goplsOpen>>

ConcGenerateOf(i) ==
    /\ i \in 1..Len(handlers)
    /\ handlers[i].pc = "Generate"
    /\ ConcGenerated(i, Generate(ParseString(handlers[i].text).template))

\* rewriteDidCloseRequest: p.documentContents.Delete
ConcDeleteDocumentOf(i) ==
    /\ i \in 1..Len(handlers)
    /\ handlers[i].pc = "DeleteDocument"
    /\ documentContents' = MapDelete(documentContents, handlers[i].r.Params.URI)
    /\ Proceeds(i, "DeleteSourceMap", <<>>)
    /\ UNCHANGED <<sourceMapCache, toClient, goplsOpen>>

\* rewriteDidCloseRequest: p.sourceMapCache.Delete
ConcDeleteSourceMapOf(i) ==
    /\ i \in 1..Len(handlers)
    /\ handlers[i].pc = "DeleteSourceMap"
    /\ sourceMapCache' = MapDelete(sourceMapCache, handlers[i].r.Params.URI)
    /\ Proceeds(i, "Notify", <<>>)
    /\ UNCHANGED <<documentContents, toClient, goplsOpen>>

\* the params the handler forwards: those of the message when the URI is no
\* template, else the URI of the Go file and, for a didOpen and a didChange,
\* the Go text
ConcForwarded(r, gotext) ==
    IF r.Method \notin {DidOpen, DidChange, DidSave, DidClose} THEN r.Params
    ELSE IF ~IsTemplate(r.Params.URI) THEN r.Params
    ELSE CASE r.Method = DidOpen ->
                [r.Params EXCEPT !.Text = gotext, !.URI = GeneratedURI(@)]
           [] r.Method = DidChange ->
                [r.Params EXCEPT !.ContentChanges = <<FullChange(gotext)>>,
                                 !.URI = GeneratedURI(@)]
           [] OTHER -> [r.Params EXCEPT !.URI = GeneratedURI(@)]

\* what gopls holds open once it was notified: didOpen opens the file with
\* its text, didChange replaces the text of an open file, didClose closes it
lifecycle(open, method, params) ==
    IF ~params.Valid THEN open
    ELSE IF ~HasSuffix(params.URI, GoExt) THEN open
    ELSE CASE method = DidOpen -> MapSet(open, params.URI, params.Text)
           [] method = DidChange /\ MapHas(open, params.URI) ->
                MapSet(open, params.URI,
                       params.ContentChanges[Len(params.ContentChanges)].Text)
           [] method = DidClose -> MapDelete(open, params.URI)
           [] OTHER -> open

\* Handle: p.gopls.Notify
ConcNotified(i, params) ==
    /\ goplsOpen' = lifecycle(goplsOpen, handlers[i].r.Method, params)
    /\ Proceeds(i, "done", <<EvGoplsNotify(handlers[i].r.Method, params)>>)
    /\ UNCHANGED <<documentContents, sourceMapCache, toClient>>

ConcNotifyOf(i) ==
    /\ i \in 1..Len(handlers)
    /\ handlers[i].pc = "Notify"
    /\ ConcNotified(i, ConcForwarded(handlers[i].r,
                                     Generate(ParseString(handlers[i].text).template).text))

Diagnostic(start, end) ==
    [Range |-> LSPRange(start, end), Severity |-> "Warning", Code |-> "unused",
     Source |-> "compiler", Message |-> "declared but not used"]

GoplsPositions == {LSPPos(0, 0), LSPPos(1, 1), LSPPos(1, 2)}

GoplsDiagnostics ==
    {<<>>, <<Diagnostic(LSPPos(1, 1), LSPPos(1, 2)), Diagnostic(LSPPos(0, 0), LSPPos(1, 1))>>}
    \cup {<<Diagnostic(a, b)>> : a \in GoplsPositions, b \in GoplsPositions}

\* a file of the workspace that is no template and no generated file, and
\* whose name is the name of the template U1 without its suffix
P2 == <<"file:///a/", "b">>

GoplsURIs == {GeneratedURI(U1), GeneratedURI(U2), P1, P2}

\* every list of diagnostics for the Go file of U1, two for the other files
GoplsDiagnosticsParams ==
    {[Valid |-> TRUE, URI |-> GeneratedURI(U1), Diagnostics |-> d] : d \in GoplsDiagnostics}
    \cup {[Valid |-> TRUE, URI |-> u, Diagnostics |-> d] :
              u \in GoplsURIs, d \in {<<>>, <<Diagnostic(LSPPos(1, 1), LSPPos(1, 2))>>}}
    \cup {BadParams}

GoplsMessageMethods == {ShowMessage, "window/logMessage"}

GoplsMessages ==
    {<<"Do not edit this file!", " It is generated.">>,
     <<"Loading packages">>, <<"Note: ", "Do not edit this file!">>}

GoplsMessageParams == {[Valid |-> TRUE, Message |-> m] : m \in GoplsMessages} \cup {BadParams}

GoplsCallMethods == {"workspace/configuration"}

ClientReplies == {[ok |-> TRUE, Result |-> "settings"], [ok |-> FALSE, Result |-> "null"]}

(***************************************************************************)
(* proxyFromGoplsToClient, the handler of the messages of gopls.           *)
(***************************************************************************)
\* the notification is held back, or the params of the diagnostics are not
\* read: the handler returns
GoplsDropOf(i) ==
    /\ i \in 1..Len(handlers)
    /\ handlers[i].pc = "Drop"
    /\ Proceeds(i, "done", <<>>)
    /\ UNCHANGED <<documentContents, sourceMapCache, toClient, goplsOpen>>

\* from sourceMapCache.Get on: the handler returns when the rewrite fails
GoplsRead(i, read) ==
    Reads(i,
          IF rewriteGoplsPublishDiagnostics(handlers[i].r, read.ok, read.sourceMap).err
          THEN "done" ELSE "NotifyClient",
          read)

\* rewriteGoplsPublishDiagnostics: p.sourceMapCache.Get
GoplsGetOf(i) ==
    /\ i \in 1..Len(handlers)
    /\ handlers[i].pc = "GetDiagnostics"
    /\ GoplsRead(i, CachedSourceMap(sourceMapCache, TemplateURI(handlers[i].r.Params.URI)))

\* the params the handler sends on: the diagnostics rewritten with the map
\* it holds, every other notification as it came
notifiedParams(h) ==
    IF h.r.Method = PublishDiagnostics
    THEN rewriteGoplsPublishDiagnostics(h.r, h.ok, h.sourceMap).Params
    ELSE h.r.Params

\* p.client.Notify; a failure is logged
GoplsNotifyOf(i) ==
    /\ i \in 1..Len(handlers)
    /\ handlers[i].pc = "NotifyClient"
    /\ Proceeds(i, "done", <<EvClientNotify(handlers[i].r.Method, notifiedParams(handlers[i]))>>)
    /\ UNCHANGED <<documentContents, sourceMapCache, toClient, goplsOpen>>

\* a call of gopls: p.client.Call is sent
GoplsCallClientOf(i) ==
    /\ i \in 1..Len(handlers)
    /\ handlers[i].pc = "CallClient"
    /\ Proceeds(i, "ClientCall", <<EvClientCall(handlers[i].r.Method, handlers[i].r.Params)>>)
    /\ UNCHANGED <<documentContents, sourceMapCache, toClient, goplsOpen>>

\* p.client.Call returns, with the answer of the client or an error
ClientReturnsOf(i) ==
    /\ i \in 1..Len(handlers)
    /\ handlers[i].pc = "ClientCall"
    /\ \E reply \in ClientReplies :
          Proceeds(i, "ReplyGopls", <<EvClientResult(handlers[i].r.Method, reply)>>)
    /\ UNCHANGED <<documentContents, sourceMapCache, toClient, goplsOpen>>

\* conn.Reply to gopls with the result, the zero value when the call failed
GoplsReplyOf(i) ==
    /\ i \in 1..Len(handlers)
    /\ handlers[i].pc = "ReplyGopls"
    /\ Proceeds(i, "done", <<EvReply(handlers[i].r.Method,
                                     ClientResult(handlers[i].evs[2].Params))>>)
    /\ UNCHANGED <<documentContents, sourceMapCache, toClient, goplsOpen>>

proxyFromGoplsToClient(i) ==
    \/ GoplsDropOf(i)
    \/ GoplsGetOf(i)
    \/ GoplsNotifyOf(i)
    \/ GoplsCallClientOf(i)
    \/ ClientReturnsOf(i)
    \/ GoplsReplyOf(i)

(***************************************************************************)
(* Requests of the client.  Every request but formatting and the snippet   *)
(* completions calls gopls: the handler sends the call, is suspended until *)
(* it returns and then replies.  proxyCompletion reads the source map from *)
(* the cache before it calls and once more when the call has returned.     *)
(***************************************************************************)
\* rewriteCompletionRequest: p.sourceMapCache.Get
CompletionGetRequestOf(i) ==
    /\ i \in 1..Len(handlers)
    /\ handlers[i].pc = "GetRequest"
    /\ Reads(i, "Request", CachedSourceMap(sourceMapCache, CompletionParams(handlers[i].r).URI))

\* the params the handler calls gopls with: proxyInitialize and
\* proxyCompletion send what they unmarshalled, proxyCompletion after
\* rewriteCompletionRequest, proxyCall sends the params as they came
calledParams(h) ==
    CASE h.r.Method = Initialize -> CompletionParams(h.r)
      [] h.r.Method = Completion ->
           rewriteCompletionRequest(CompletionParams(h.r), h.ok, h.sourceMap).Params
      [] OTHER -> h.r.Params

\* the handler sends its call to gopls
CallGoplsOf(i) ==
    /\ i \in 1..Len(handlers)
    /\ handlers[i].pc = "Request"
    /\ Proceeds(i, "Call", <<EvGoplsCall(handlers[i].r.Method, calledParams(handlers[i]))>>)
    /\ UNCHANGED <<documentContents, sourceMapCache, toClient, goplsOpen>>

\* proxyCall returns without a reply when the call to gopls fails
afterCallReturnsOnError(r, reply) ==
    IF r.Method \notin {Initialize, Completion} /\ ~reply.ok THEN "done"
    ELSE IF r.Method = Completion THEN "GetResponse" ELSE "Reply"

\* where the handler goes on once its call has returned, whatever it
\* returned: proxyCompletion to rewriteCompletionResponse, the others to
\* their reply
afterCall(r, reply) == IF r.Method = Completion THEN "GetResponse" ELSE "Reply"

\* what gopls may answer to the call of a handler
GoplsRepliesTo(r) ==
    CASE r.Method = Initialize -> GoplsInitializeReplies
      [] r.Method = Completion -> GoplsCompletionReplies
      [] OTHER -> GoplsReplies

\* p.gopls.Call returns, with the answer of gopls or an error
CallReturnsOf(i) ==
    /\ i \in 1..Len(handlers)
    /\ handlers[i].pc = "Call"
    /\ \E reply \in GoplsRepliesTo(handlers[i].r) :
          Proceeds(i, afterCall(handlers[i].r, reply),
                   <<EvGoplsResult(handlers[i].r.Method, reply)>>)
    /\ UNCHANGED <<documentContents, sourceMapCache, toClient, goplsOpen>>

\* rewriteCompletionResponse: p.sourceMapCache.Get, for the URI the call
\* was made with
CompletionGetResponseOf(i) ==
    /\ i \in 1..Len(handlers)
    /\ handlers[i].pc = "GetResponse"
    /\ Reads(i, "Reply",
             CachedSourceMap(sourceMapCache, TemplateURI(handlers[i].evs[1].Params.URI)))

\* handleFormatting: p.documentContents.Get
FormattingGetOf(i) ==
    /\ i \in 1..Len(handlers)
    /\ handlers[i].pc = "Get"
    /\ Obtains(i, "Send", StoredContents(FormattingParams(handlers[i].r).URI))
    /\ UNCHANGED <<documentContents, sourceMapCache, toClient, goplsOpen>>

\* the send on toClient waits for room
FormattingSent(i, out) ==
    /\ out = <<>> \/ Room
    /\ toClient' = toClient \o out
    /\ Proceeds(i, "Reply", Enqueued(out))
    /\ UNCHANGED <<documentContents, sourceMapCache, goplsOpen>>

\* handleFormatting: parser.ParseString, then the diagnostic or the clear
\* is sent on toClient
FormattingSendOf(i) ==
    /\ i \in 1..Len(handlers)
    /\ handlers[i].pc = "Send"
    /\ FormattingSent(i, formattingContents(FormattingParams(handlers[i].r).URI,
                                            handlers[i].text).out)

\* the result the handler replies with: the capabilities as proxyInitialize
\* changes them, the completion list of the trigger or the list of gopls
\* rewritten with the map the handler holds, the edits of handleFormatting,
\* and for proxyCall what gopls returned
replyTo(h) ==
    CASE h.r.Method = Initialize -> filterCapabilities(InitializeResult(h.evs[2].Params))
      [] h.r.Method = Completion /\ ~CallsGopls(h.r) ->
           [Items |-> snippets(CompletionParams(h.r).TriggerCharacter)]
      [] h.r.Method = Completion /\ CallsGopls(h.r) ->
           rewriteCompletionResponse(CompletionList(h.evs[2].Params), h.ok, h.sourceMap).resp
      [] h.r.Method = Formatting ->
           formattingContents(FormattingParams(h.r).URI, h.text).resp
      [] OTHER -> CallResult(h.evs[2].Params)

\* conn.Reply to the client
ReplyOf(i) ==
    /\ i \in 1..Len(handlers)
    /\ handlers[i].pc = "Reply"
    /\ Proceeds(i, "done", <<EvReply(handlers[i].r.Method, replyTo(handlers[i]))>>)
    /\ UNCHANGED <<documentContents, sourceMapCache, toClient, goplsOpen>>

(***************************************************************************)
(* The worker started by Init: it receives the oldest message of toClient  *)
(* and sends it to the client; a failed send is logged and the worker goes *)
(* on with its loop.                                                       *)
(***************************************************************************)
\* the loop of the worker goes on after sendToClient, whatever its outcome
afterSend(ok) == "range"

\* the worker receives the message placed last
receivedLast(q) == q[Len(q)]

\* for r := range p.toClient
received(q) == Head(q)

\* the worker receives a message from the channel
WorkerReceives ==
    /\ worker.pc = "range"
    /\ toClient # <<>>
    /\ toClient' = Tail(toClient)
    /\ worker' = [pc |-> "sendToClient", r |-> received(toClient), err |-> FALSE]
    /\ UNCHANGED <<documentContents, sourceMapCache, capacity, handlers, goplsOpen,
                   context, overlap>>

\* sendToClient: the client.Notify or client.Call of the message succeeds
\* or fails
WorkerSends(ok) ==
    /\ worker.pc = "sendToClient"
    /\ worker' = [worker EXCEPT !.pc = afterSend(ok), !.err = ~ok]
    /\ UNCHANGED <<documentContents, sourceMapCache, toClient, capacity, handlers,
                   goplsOpen, context, overlap>>

Worker == WorkerReceives \/ \E ok \in BOOLEAN : WorkerSends(ok)

\* the context given to Init is cancelled
Cancel ==
    /\ context = "live"
    /\ context' = "cancelled"
    /\ UNCHANGED <<documentContents, sourceMapCache, toClient, capacity, handlers,
                   goplsOpen, worker, overlap>>

(***************************************************************************)
(* The messages of the client.  The model explores every message at an     *)
(* idle proxy and, next to a handler in flight, the messages of            *)
(* ConcurrentMessages.                                                     *)
(***************************************************************************)
CompletionPositions == {LSPPos(0, 0), LSPPos(0, 1)}

TriggerCharacters == {"<", "{", "."}

CompletionRequests ==
    {[Valid |-> TRUE, URI |-> u, Position |-> p, TriggerCharacter |-> t] :
        u \in ClientURIs, p \in CompletionPositions, t \in TriggerCharacters}
    \cup {BadParams}

InitializeRequests ==
    {[Valid |-> TRUE, URI |-> <<>>, Position |-> LSPPos(0, 0), TriggerCharacter |-> ""],
     BadParams}

OtherMethods == {"textDocument/hover"}

OtherParams == {[Valid |-> TRUE, URI |-> u] : u \in ClientURIs} \cup {BadParams}

FormattingRequests == {[Valid |-> TRUE, URI |-> U1], BadParams}

ClientNotifications ==
    {ClientNotification(DidOpen, p) : p \in DidOpenParams}
    \cup {ClientNotification(DidChange, p) : p \in DidChangeParams}
    \cup {ClientNotification(m, p) : m \in {DidSave, DidClose}, p \in DocumentParams}

ClientRequests ==
    {ClientRequest(Completion, p) : p \in CompletionRequests}
    \cup {ClientRequest(Initialize, p) : p \in InitializeRequests}
    \cup {ClientRequest(m, p) : m \in OtherMethods, p \in OtherParams}
    \cup {ClientRequest(Formatting, p) : p \in FormattingRequests}

\* the notifications that open and close the template U1
Opens(texts) ==
    {ClientNotification(DidOpen, [Valid |-> TRUE, URI |-> U1, Text |-> t]) : t \in texts}

OpenClose(texts) == Opens(texts) \cup {ClientNotification(DidClose, [Valid |-> TRUE, URI |-> U1])}

ConcurrentMessages ==
    {ClientNotification(DidClose, [Valid |-> TRUE, URI |-> U1]),
     ClientNotification(DidChange, [Valid |-> TRUE, URI |-> U1,
                                    ContentChanges |-> <<FullChange(<<"a", "a">>)>>])}

(***************************************************************************)
(* Handle, the handler of the notifications of the client.                 *)
(***************************************************************************)
\* the steps of the handlers that open, change and close a template
OpenCloseStep(i) ==
    \/ ConcSetOf(i)
    \/ ConcApplyOf(i)
    \/ ConcParseOf(i)
    \/ ConcGenerateOf(i)
    \/ ConcDeleteDocumentOf(i)
    \/ ConcDeleteSourceMapOf(i)
    \/ ConcNotifyOf(i)

NotificationStep(i) == ConcFailOf(i) \/ OpenCloseStep(i)

\* the steps of the handlers of the requests
RequestStep(i) ==
    \/ CompletionGetRequestOf(i)
    \/ CallGoplsOf(i)
    \/ CallReturnsOf(i)
    \/ CompletionGetResponseOf(i)
    \/ FormattingGetOf(i)
    \/ FormattingSendOf(i)
    \/ ReplyOf(i)

(***************************************************************************)
(* The notifications of the client, their handlers side by side, and the   *)
(* worker.                                                                 *)
(***************************************************************************)
Arrive == ArrivesFrom(ClientNotifications, ConcurrentMessages)

Next ==
    \/ Arrive
    \/ \E i \in 1..MaxHandlers : NotificationStep(i)
    \/ Worker

Spec == Init /\ [][Next]_vars

(***************************************************************************)
(* The messages of gopls, next to the handlers that open and close the     *)
(* template.                                                               *)
(***************************************************************************)
GoplsTexts == {<<"a">>, <<"!">>, <<"a", "a">>}

GoplsInputs ==
    {GoplsNotification(PublishDiagnostics, p) : p \in GoplsDiagnosticsParams}
    \cup {GoplsNotification(m, p) : m \in GoplsMessageMethods, p \in GoplsMessageParams}
    \cup {GoplsRequest(m, p) : m \in GoplsCallMethods, p \in {[Valid |-> TRUE], BadParams}}

\* the diagnostics of gopls that arrive while a handler is in flight
ConcurrentDiagnostics ==
    {GoplsNotification(PublishDiagnostics,
                       [Valid |-> TRUE, URI |-> GeneratedURI(U1),
                        Diagnostics |-> <<Diagnostic(LSPPos(1, 1), LSPPos(1, 2))>>])}

Opening ==
    ArrivesFrom(OpenClose(GoplsTexts) \cup GoplsInputs,
                ConcurrentMessages \cup ConcurrentDiagnostics)

NextGopls ==
    \/ Opening
    \/ \E i \in 1..MaxHandlers : OpenCloseStep(i) \/ proxyFromGoplsToClient(i)
    \/ Worker

SpecGopls == Init /\ [][NextGopls]_vars

(***************************************************************************)
(* The requests of the client, next to the handlers that open and close    *)
(* the template.                                                           *)
(***************************************************************************)
RequestArrive == ArrivesFrom(OpenClose(Texts) \cup ClientRequests, ConcurrentMessages)

NextRequests ==
    \/ RequestArrive
    \/ \E i \in 1..MaxHandlers : OpenCloseStep(i) \/ RequestStep(i)
    \/ Worker

SpecRequests == Init /\ [][NextRequests]_vars

(***************************************************************************)
(* The handlers as tasks that keep running.  A handler is suspended while  *)
(* gopls.Call has not returned and while toClient is full; the worker      *)
(* receives from toClient and sends, whatever the outcome of the send.     *)
(***************************************************************************)
\* the requests and the notifications handled next to the worker
LiveRequests ==
    {ClientRequest(Formatting, [Valid |-> TRUE, URI |-> U1]),
     ClientRequest(Formatting, BadParams),
     ClientRequest(Initialize, BadParams),
     ClientRequest(Completion, [Valid |-> TRUE, URI |-> U1, Position |-> LSPPos(0, 0),
                                TriggerCharacter |-> "."]),
     ClientRequest(Completion, [Valid |-> TRUE, URI |-> U1, Position |-> LSPPos(0, 0),
                                TriggerCharacter |-> "<"]),
     ClientRequest("textDocument/hover", BadParams)}

LiveTexts == {<<"!">>}

LiveMessages == LiveRequests \cup OpenClose(LiveTexts)

LiveArrive == ArrivesFrom(LiveMessages, LiveMessages)

\* a step of the handler i
StepOf(i) ==
    \/ ConcSetOf(i)
    \/ ConcParseOf(i)
    \/ ConcDeleteDocumentOf(i)
    \/ ConcDeleteSourceMapOf(i)
    \/ ConcNotifyOf(i)
    \/ RequestStep(i)

NextLive ==
    \/ LiveArrive
    \/ \E i \in 1..MaxHandlers : StepOf(i)
    \/ Worker

\* every handler and the worker are goroutines that keep running; a call to
\* gopls returns; the senders that wait on the full channel are served in
\* turn when a slot becomes free
FairLive ==
    /\ WF_vars(Worker)
    /\ \A i \in 1..MaxHandlers : SF_vars(StepOf(i))

SpecLive == Init /\ [][NextLive]_vars /\ FairLive

\* the same, with the cancellation of the context
NextCancel ==
    \/ NextLive
    \/ Cancel

SpecCancel == Init /\ [][NextCancel]_vars /\ FairLive

(***************************************************************************)
(* The channel at its capacity: the handlers of didOpen notifications      *)
(* whose text fails to parse fill it with diagnostics, and next to one of  *)
(* them one didOpen whose text parses places its clear.                    *)
(***************************************************************************)
OutboxArrive ==
    ArrivesFrom(Opens({<<"!">>}), IF overlap THEN {} ELSE Opens({<<"a">>}))

OutboxStep(i) ==
    \/ ConcSetOf(i)
    \/ ConcParseOf(i)
    \/ ConcGenerateOf(i)
    \/ ConcNotifyOf(i)

NextOutbox ==
    \/ OutboxArrive
    \/ \E i \in 1..MaxHandlers : OutboxStep(i)
    \/ Worker

InitOutbox == NewProxy(ToClientCap)

SpecOutbox == InitOutbox /\ [][NextOutbox]_vars /\ WF_vars(Worker)

(***************************************************************************)
(* What the properties below say of a message and of its handler, stated   *)
(* apart from the operators of the proxy.                                  *)
(***************************************************************************)
\* the basename of the URI ends in .templ
EndsInTempl(u) == Len(u) > 0 /\ u[Len(u)] = ".templ"

\* the URI with the suffix .templ of its basename replaced by _templ.go
SwapSuffix(u) == [i \in 1..Len(u) |-> IF i = Len(u) THEN "_templ.go" ELSE u[i]]

\* r is a notification of the client with method m for a template URI
TemplateNotification(r, m) ==
    /\ r.From = "client"
    /\ r.Notif
    /\ r.Method = m
    /\ r.Params.Valid
    /\ EndsInTempl(r.Params.URI)

Parses(text) == ParseString(text).ok

Generates(text) == Parses(text) /\ Generate(ParseString(text).template).ok

SourceMapFor(text) == Generate(ParseString(text).template).sm

GoTextFor(text) == Generate(ParseString(text).template).text

\* the handler has returned
Returned(h) == h.pc = "done"

\* the handler has returned and no other handler was in flight next to it
ReturnedAlone(i) == i = 1 /\ Len(handlers) = 1 /\ Returned(handlers[1])

\* the step is one of the handler i
StepOfHandler(i) ==
    /\ i \in 1..Len(handlers)
    /\ ~Returned(handlers[i])
    /\ i <= Len(handlers')
    /\ handlers'[i] # handlers[i]

\* the calls the handler i makes in the step
NewEvents(i) ==
    SubSeq(handlers'[i].evs, Len(handlers[i].evs) + 1, Len(handlers'[i].evs))

\* the messages among the calls evs that went on toClient
Queued(evs) ==
    LET q == SelectSeq(evs, LAMBDA e : e.Ev = "toClient")
    IN  [k \in 1..Len(q) |-> [Method |-> q[k].Method, Notif |-> TRUE, Params |-> q[k].Params]]

\* what the handler i records as placed on toClient is placed at its end
PlacesWhatItLogs(i) == toClient' = toClient \o Queued(NewEvents(i))

SameEntry(m1, m2, u) ==
    /\ MapHas(m1, u) <=> MapHas(m2, u)
    /\ MapHas(m1, u) => m1[u] = m2[u]

OpenOrChange(r) == TemplateNotification(r, DidOpen) \/ TemplateNotification(r, DidChange)

\* the handler of a didOpen or didChange holds a text that fails to parse
FailedParse(h) == OpenOrChange(h.r) /\ h.got /\ ~Parses(h.text)

(***************************************************************************)
(* C1: after a didOpen for a template URI U with a text T that parses and  *)
(* generates, handled with no other handler in flight, the Document Store  *)
(* holds T for U and the SourceMapCache holds for U the map that           *)
(* generate(parse(T)) produced.                                            *)
(***************************************************************************)
DidOpened(h) ==
    /\ Returned(h)
    /\ TemplateNotification(h.r, DidOpen)
    /\ Generates(h.r.Params.Text)

C1_DidOpenFillsCaches ==
    (ReturnedAlone(1) /\ DidOpened(handlers[1])) =>
        /\ MapHas(documentContents, handlers[1].r.Params.URI)
        /\ documentContents[handlers[1].r.Params.URI] = handlers[1].r.Params.Text
        /\ MapHas(sourceMapCache, handlers[1].r.Params.URI)
        /\ sourceMapCache[handlers[1].r.Params.URI] = SourceMapFor(handlers[1].r.Params.Text)

C1_Witness ==
    /\ ReturnedAlone(1)
    /\ DidOpened(handlers[1])
    /\ handlers[1].r.Params.URI = U1
    /\ handlers[1].r.Params.Text = <<"a", "a">>
    /\ documentContents = (U1 :> <<"a", "a">>)
    /\ sourceMapCache = (U1 :> {[From |-> Pos(1, 0), To |-> Pos(2, 1)],
                                [From |-> Pos(1, 1), To |-> Pos(2, 2)]})

(***************************************************************************)
(* C2: a didChange for an open template URI whose changes give a text that *)
(* fails to parse leaves the SourceMapCache entry of the URI as it was,    *)
(* whatever notifications came before: no step of its handler changes the  *)
(* entry, and the caches change in the steps of handlers only, so that the *)
(* entry is the same when the handler returns as when it started unless    *)
(* another handler ran next to it.                                         *)
(***************************************************************************)
FailedChange(h) == TemplateNotification(h.r, DidChange) /\ h.got /\ ~Parses(h.text)

C2_FailedChangeKeepsMap ==
    /\ [][\A i \in 1..Len(handlers) :
            (StepOfHandler(i) /\ FailedChange(handlers'[i]))
                => SameEntry(sourceMapCache, sourceMapCache', handlers[i].r.Params.URI)]_vars
    /\ [][(sourceMapCache' # sourceMapCache \/ documentContents' # documentContents)
              => \E i \in 1..Len(handlers) : StepOfHandler(i)]_vars

C2_Witness ==
    /\ ReturnedAlone(1)
    /\ FailedChange(handlers[1])
    /\ handlers[1].r.Params.URI = U1
    /\ handlers[1].text = <<"!">>
    /\ documentContents = (U1 :> <<"!">>)
    /\ sourceMapCache = (U1 :> {[From |-> Pos(1, 0), To |-> Pos(2, 1)]})
    /\ Len(handlers[1].evs) = 1
    /\ handlers[1].evs[1].Ev = "toClient"
    /\ Len(handlers[1].evs[1].Params.Diagnostics) = 1

(***************************************************************************)
(* C3: with the notifications handled one at a time, the two caches agree  *)
(* on every template URI.  As claimed: once the handlers have returned,    *)
(* every template URI with a Document Store entry has a SourceMapCache     *)
(* entry, which is the map generated from the stored text, and a didOpen   *)
(* or didChange whose text fails to parse leaves both entries of the URI   *)
(* as they were.                                                           *)
(***************************************************************************)
\* no handler is in flight and none has ever run next to another
OneAtATime == ~overlap /\ Running = <<>>

C3_Original ==
    /\ [](OneAtATime =>
            \A u \in DOMAIN documentContents :
                EndsInTempl(u) =>
                    /\ MapHas(sourceMapCache, u)
                    /\ Generates(documentContents[u])
                    /\ sourceMapCache[u] = SourceMapFor(documentContents[u]))
    /\ [][\A i \in 1..Len(handlers) :
            (StepOfHandler(i) /\ FailedParse(handlers'[i])) =>
                /\ SameEntry(documentContents, documentContents', handlers[i].r.Params.URI)
                /\ SameEntry(sourceMapCache, sourceMapCache', handlers[i].r.Params.URI)]_vars

(***************************************************************************)
(* C3 as it holds: once the handlers have returned, every URI with a       *)
(* SourceMapCache entry has a Document Store entry, and whenever the       *)
(* stored text of a template URI parses and generates, the cached map is   *)
(* the one generated from it; a didOpen or didChange whose text fails to   *)
(* parse leaves the SourceMapCache entry as it was and stores the new text *)
(* in the Document Store.                                                  *)
(***************************************************************************)
C3_CachesAgree ==
    /\ [](OneAtATime =>
            /\ \A u \in DOMAIN sourceMapCache : MapHas(documentContents, u)
            /\ \A u \in DOMAIN documentContents :
                   (EndsInTempl(u) /\ Generates(documentContents[u])) =>
                       /\ MapHas(sourceMapCache, u)
                       /\ sourceMapCache[u] = SourceMapFor(documentContents[u]))
    /\ [][\A i \in 1..Len(handlers) :
            (StepOfHandler(i) /\ FailedParse(handlers'[i])) =>
                SameEntry(sourceMapCache, sourceMapCache', handlers[i].r.Params.URI)]_vars
    /\ []((ReturnedAlone(1) /\ FailedParse(handlers[1])) =>
            /\ MapHas(documentContents, handlers[1].r.Params.URI)
            /\ documentContents[handlers[1].r.Params.URI] = handlers[1].text)

C3_Witness ==
    /\ OneAtATime
    /\ ReturnedAlone(1)
    /\ TemplateNotification(handlers[1].r, DidOpen)
    /\ FailedParse(handlers[1])
    /\ handlers[1].r.Params.Text = <<"!">>
    /\ documentContents = (U1 :> <<"!">>)
    /\ sourceMapCache = (U1 :> {[From |-> Pos(1, 0), To |-> Pos(2, 1)],
                                [From |-> Pos(1, 1), To |-> Pos(2, 2)]})

(***************************************************************************)
(* C4: no cache entry exists for a closed URI, under any interleaving of   *)
(* the handlers: once the handler of a didClose for U and the handlers of  *)
(* all notifications on U that arrived before it have finished (and none   *)
(* for U arrived after it), neither the Document Store nor the             *)
(* SourceMapCache holds an entry for U.                                    *)
(***************************************************************************)
\* the message of the handler j is about the URI u
About(j, u) == handlers[j].r.Params.Valid /\ handlers[j].r.Params.URI = u

ClosedAndSettled(k) ==
    /\ TemplateNotification(handlers[k].r, DidClose)
    /\ \A j \in 1..k : About(j, handlers[k].r.Params.URI) => Returned(handlers[j])
    /\ \A j \in (k + 1)..Len(handlers) : ~About(j, handlers[k].r.Params.URI)

C4_ClosedHasNoEntry ==
    \A k \in 1..Len(handlers) :
        ClosedAndSettled(k) =>
            /\ ~MapHas(documentContents, handlers[k].r.Params.URI)
            /\ ~MapHas(sourceMapCache, handlers[k].r.Params.URI)

(***************************************************************************)
(* C5: a successful didOpen or didChange for a template URI U places       *)
(* exactly one publishDiagnostics with an empty list for U on toClient,    *)
(* before the notification is forwarded to gopls.  As claimed, moreover:   *)
(* no clear is emitted for a notification that is not forwarded.           *)
(***************************************************************************)
ClearRequest(u) ==
    [Method |-> "textDocument/publishDiagnostics", Notif |-> TRUE,
     Params |-> [URI |-> u, Diagnostics |-> <<>>]]

IsClear(e) ==
    e.Ev = "toClient" /\ e.Method = "textDocument/publishDiagnostics"
    /\ e.Params.Diagnostics = <<>>

IsForward(e) == e.Ev = "gopls.Notify"

\* the didOpen or didChange succeeds: its text parses and generates
Succeeded(h) == h.got /\ Generates(h.text)

\* the didOpen or didChange gives a text that parses, and generation fails
OnlyParsed(h) == h.got /\ Parses(h.text) /\ ~Generates(h.text)

ClearThenForward(h) ==
    /\ Len(h.evs) = 2
    /\ h.evs[1] = [Ev |-> "toClient", Method |-> ClearRequest(h.r.Params.URI).Method,
                   Params |-> ClearRequest(h.r.Params.URI).Params]
    /\ IsForward(h.evs[2])
    /\ h.evs[2].Method = h.r.Method

\* every handler places on toClient, when it records it, what it records
HandlersPlace ==
    [][\A i \in 1..Len(handlers) : StepOfHandler(i) => PlacesWhatItLogs(i)]_vars

C5_Original ==
    /\ HandlersPlace
    /\ [](\A i \in 1..Len(handlers) :
            (Returned(handlers[i]) /\ OpenOrChange(handlers[i].r)) =>
                /\ Succeeded(handlers[i]) => ClearThenForward(handlers[i])
                /\ (~\E k \in 1..Len(handlers[i].evs) : IsForward(handlers[i].evs[k]))
                       => ~\E k \in 1..Len(handlers[i].evs) : IsClear(handlers[i].evs[k]))

(***************************************************************************)
(* C5 as it holds: a successful didOpen or didChange places exactly one    *)
(* clear for U on toClient before the forward; a notification whose text   *)
(* fails to parse, or whose changes cannot be applied, emits no clear and  *)
(* is not forwarded; one whose text parses but fails to generate emits the *)
(* one clear and is not forwarded.                                         *)
(***************************************************************************)
C5_ClearBeforeForward ==
    /\ [][\A i \in 1..Len(handlers) : StepOfHandler(i) => PlacesWhatItLogs(i)]_vars
    /\ [](\A i \in 1..Len(handlers) :
            (Returned(handlers[i]) /\ OpenOrChange(handlers[i].r)) =>
                /\ Succeeded(handlers[i]) => ClearThenForward(handlers[i])
                /\ (~handlers[i].got \/ ~Parses(handlers[i].text)) =>
                       \A k \in 1..Len(handlers[i].evs) :
                           ~IsForward(handlers[i].evs[k]) /\ ~IsClear(handlers[i].evs[k])
                /\ OnlyParsed(handlers[i]) =>
                       /\ Len(handlers[i].evs) = 1
                       /\ IsClear(handlers[i].evs[1])
                       /\ handlers[i].evs[1].Params.URI = handlers[i].r.Params.URI)

C5_Witness ==
    /\ ReturnedAlone(1)
    /\ TemplateNotification(handlers[1].r, DidChange)
    /\ Succeeded(handlers[1])
    /\ documentContents = (U1 :> <<"a", "a">>)
    /\ Len(handlers[1].evs) = 2
    /\ IsClear(handlers[1].evs[1])
    /\ handlers[1].evs[1].Params.URI = U1
    /\ IsForward(handlers[1].evs[2])
    /\ toClient # <<>>
    /\ toClient[Len(toClient)] = ClearRequest(U1)

(***************************************************************************)
(* C6: a didOpen or didChange for a template URI whose text fails to parse *)
(* with ParseError{message, from, to} is not forwarded, and exactly one    *)
(* publishDiagnostics is queued for the URI: one diagnostic of severity    *)
(* Error, source "templ", empty code, that message and the range           *)
(* (from.line-1, from.col+1) .. (to.line-1, to.col+1).                     *)
(***************************************************************************)
ParseErrorRequest(u, err) ==
    [Method |-> "textDocument/publishDiagnostics", Notif |-> TRUE,
     Params |-> [URI |-> u,
                 Diagnostics |->
                   <<[Range |-> [Start |-> [Line |-> err.From.Line - 1,
                                            Character |-> err.From.Col + 1],
                                 End |-> [Line |-> err.To.Line - 1,
                                          Character |-> err.To.Col + 1]],
                      Severity |-> "Error", Code |-> "", Source |-> "templ",
                      Message |-> err.Message]>>]]

FailedWithParseError(h) ==
    /\ OpenOrChange(h.r)
    /\ h.got
    /\ ~ParseString(h.text).ok
    /\ ParseString(h.text).isParseError

\* the handler queued msg and made no other call
OnlyQueued(h, msg) ==
    h.evs = <<[Ev |-> "toClient", Method |-> msg.Method, Params |-> msg.Params]>>

C6_ParseErrorDiagnostic ==
    /\ [][\A i \in 1..Len(handlers) :
            (StepOfHandler(i) /\ OpenOrChange(handlers[i].r)) => PlacesWhatItLogs(i)]_vars
    /\ [](\A i \in 1..Len(handlers) :
            (Returned(handlers[i]) /\ FailedWithParseError(handlers[i])) =>
                OnlyQueued(handlers[i],
                           ParseErrorRequest(handlers[i].r.Params.URI,
                                             ParseString(handlers[i].text))))

C6_Witness ==
    /\ ReturnedAlone(1)
    /\ TemplateNotification(handlers[1].r, DidChange)
    /\ FailedWithParseError(handlers[1])
    /\ documentContents = (U1 :> <<"!", "a">>)
    /\ Len(handlers[1].evs) = 1
    /\ handlers[1].evs[1].Ev = "toClient"
    /\ handlers[1].evs[1].Params.URI = U1
    /\ Len(handlers[1].evs[1].Params.Diagnostics) = 1
    /\ handlers[1].evs[1].Params.Diagnostics[1].Range =
           [Start |-> [Line |-> 0, Character |-> 1], End |-> [Line |-> 0, Character |-> 2]]
    /\ handlers[1].evs[1].Params.Diagnostics[1].Message = "unexpected !"

(***************************************************************************)
(* C7: every didOpen, didChange, didSave or didClose for a template URI U  *)
(* that is forwarded to gopls carries the generated URI of U and never U;  *)
(* a forwarded didOpen carries the generated Go text, a forwarded          *)
(* didChange exactly one full replace, without a range, by the Go text     *)
(* generated from the template text the Document Store held for U once the *)
(* changes were applied.                                                   *)
(***************************************************************************)
DocumentNotification(r) ==
    \E m \in {DidOpen, DidChange, DidSave, DidClose} : TemplateNotification(r, m)

ForwardedRewritten(h, e) ==
    /\ e.Method = h.r.Method
    /\ e.Params.URI = SwapSuffix(h.r.Params.URI)
    /\ e.Params.URI # h.r.Params.URI
    /\ h.r.Method = DidOpen => e.Params.Text = GoTextFor(h.r.Params.Text)
    /\ h.r.Method = DidChange =>
           /\ Len(e.Params.ContentChanges) = 1
           /\ ~e.Params.ContentChanges[1].HasRange
           /\ e.Params.ContentChanges[1].Text = GoTextFor(h.text)

\* the text the handler of a didChange holds is the one the Document Store
\* holds once the changes are applied
HoldsStoredText(i) ==
    (TemplateNotification(handlers[i].r, DidChange) /\ ~handlers[i].got /\ handlers'[i].got)
        => /\ MapHas(documentContents', handlers[i].r.Params.URI)
           /\ documentContents'[handlers[i].r.Params.URI] = handlers'[i].text
           /\ handlers'[i].text =
                  applyContentChanges(documentContents[handlers[i].r.Params.URI],
                                      handlers[i].r.Params.ContentChanges).text

C7_ForwardedAsGenerated ==
    /\ [][\A i \in 1..Len(handlers) : StepOfHandler(i) => HoldsStoredText(i)]_vars
    /\ [](\A i \in 1..Len(handlers) :
            DocumentNotification(handlers[i].r) =>
                \A k \in 1..Len(handlers[i].evs) :
                    IsForward(handlers[i].evs[k])
                        => ForwardedRewritten(handlers[i], handlers[i].evs[k]))

C7_Witness ==
    /\ ReturnedAlone(1)
    /\ TemplateNotification(handlers[1].r, DidChange)
    /\ handlers[1].r.Params.URI = <<"file:///a/", "b", ".templ">>
    /\ Len(handlers[1].evs) = 2
    /\ IsForward(handlers[1].evs[2])
    /\ handlers[1].evs[2].Params.URI = <<"file:///a/", "b", "_templ.go">>
    /\ Len(handlers[1].evs[2].Params.ContentChanges) = 1
    /\ handlers[1].evs[2].Params.ContentChanges[1].Text = <<"package", NL, "a", "a">>

(***************************************************************************)
(* C8: for a publishDiagnostics of gopls on a generated URI whose template *)
(* has a cached SourceMap, the notification sent to the client carries the *)
(* template URI; as claimed, a range start (l,c) that source_from_target   *)
(* (l+1,c) maps to (sl,sc) becomes (sl-1, sc) and a range end becomes      *)
(* (sl-1, sc+1); positions with no mapping hit are left unchanged.         *)
(***************************************************************************)
EndsInGo(u) == Len(u) > 0 /\ u[Len(u)] = "_templ.go"

\* the URI with the suffix _templ.go replaced by .templ
SwapBack(u) == [i \in 1..Len(u) |-> IF i = Len(u) THEN ".templ" ELSE u[i]]

\* the position p of the Go file in client coordinates of the template, the
\* character being the column plus dc; p itself when the map has no hit
MappedBack(sm, p, dc) ==
    IF \E m \in sm : m.To.Line = p.Line + 1 /\ m.To.Col = p.Character
    THEN LET m == CHOOSE x \in sm : x.To.Line = p.Line + 1 /\ x.To.Col = p.Character
         IN  [Line |-> m.From.Line - 1, Character |-> m.From.Col + dc]
    ELSE p

GoplsDiagnosticsOnGenerated(r) ==
    /\ r.From = "gopls"
    /\ r.Notif
    /\ r.Method = "textDocument/publishDiagnostics"
    /\ r.Params.Valid
    /\ EndsInGo(r.Params.URI)

DiagnosticRewritten(sm, d, e, startShift, endShift) ==
    /\ e.Range.Start = MappedBack(sm, d.Range.Start, startShift)
    /\ e.Range.End = MappedBack(sm, d.Range.End, endShift)
    /\ e.Severity = d.Severity /\ e.Code = d.Code
    /\ e.Source = d.Source /\ e.Message = d.Message

\* evs is the one notification of the client with the diagnostics of r, on
\* the template URI and with the positions sm gives
DiagnosticsDelivered(evs, r, sm, startShift, endShift) ==
    /\ Len(evs) = 1
    /\ evs[1].Ev = "client.Notify"
    /\ evs[1].Method = r.Method
    /\ evs[1].Params.URI = SwapBack(r.Params.URI)
    /\ Len(evs[1].Params.Diagnostics) = Len(r.Params.Diagnostics)
    /\ \A k \in 1..Len(r.Params.Diagnostics) :
           DiagnosticRewritten(sm, r.Params.Diagnostics[k], evs[1].Params.Diagnostics[k],
                               startShift, endShift)

\* the handler has not looked the SourceMap up yet
BeforeLookup(h) == h.pc = "GetDiagnostics"

\* the handler i looks the SourceMap of the template up, finds the one that
\* is cached and goes on with it
FindsCached(i) ==
    /\ ~Returned(handlers'[i])
    /\ NewEvents(i) = <<>>
    /\ handlers'[i].ok
    /\ handlers'[i].sourceMap = sourceMapCache[SwapBack(handlers[i].r.Params.URI)]

\* the handler i, holding a SourceMap, notifies the client and returns
NotifiesRewritten(i, startShift, endShift) ==
    /\ handlers[i].evs = <<>>
    /\ Returned(handlers'[i])
    /\ DiagnosticsDelivered(NewEvents(i), handlers[i].r, handlers[i].sourceMap,
                            startShift, endShift)

DiagnosticsRewrittenBy(startShift, endShift) ==
    \A i \in 1..Len(handlers) :
        (StepOfHandler(i) /\ GoplsDiagnosticsOnGenerated(handlers[i].r)) =>
            IF BeforeLookup(handlers[i])
            THEN SwapBack(handlers[i].r.Params.URI) \in DOMAIN sourceMapCache
                     => FindsCached(i)
            ELSE NotifiesRewritten(i, startShift, endShift)

C8_Original == [][DiagnosticsRewrittenBy(0, 1)]_vars

(***************************************************************************)
(* C8 as it holds: when the template has a cached SourceMap as the handler *)
(* of the notification looks it up, the notification is sent to the client *)
(* with the template URI, and a range start as well as a range end (l,c)   *)
(* that source_from_target(l+1,c) of that map maps to (sl,sc) becomes      *)
(* (sl-1, sc+1); positions with no mapping hit are left unchanged.  The    *)
(* map is the one found at the lookup, also when the cache has changed     *)
(* before the notification is sent.                                        *)
(***************************************************************************)
C8_DiagnosticsRewritten == [][DiagnosticsRewrittenBy(1, 1)]_vars

C8_Witness ==
    /\ ReturnedAlone(1)
    /\ GoplsDiagnosticsOnGenerated(handlers[1].r)
    /\ handlers[1].r.Params.URI = <<"file:///a/", "b", "_templ.go">>
    /\ Len(handlers[1].r.Params.Diagnostics) = 1
    /\ handlers[1].r.Params.Diagnostics[1].Range =
           [Start |-> [Line |-> 1, Character |-> 1], End |-> [Line |-> 1, Character |-> 2]]
    /\ <<"file:///a/", "b", ".templ">> \in DOMAIN sourceMapCache
    /\ sourceMapCache[<<"file:///a/", "b", ".templ">>] = handlers[1].sourceMap
    /\ Len(handlers[1].evs) = 1
    /\ handlers[1].evs[1].Params.URI = <<"file:///a/", "b", ".templ">>
    /\ handlers[1].evs[1].Params.Diagnostics[1].Range =
           [Start |-> [Line |-> 0, Character |-> 1], End |-> [Line |-> 0, Character |-> 2]]

(***************************************************************************)
(* C9: for a completion request on an open template URI U at (l,c) with a  *)
(* trigger other than "<" and "{", as claimed: gopls is called with the    *)
(* generated URI of U and the position (tl-1, tc-1) when                   *)
(* target_from_source(l+1,c) hits with (tl,tc), the position unchanged     *)
(* otherwise; in the reply every item with a textEdit has its range start  *)
(* and end (l',c') replaced by (sl-1, sc+1) when source_from_target        *)
(* (l'+1,c') hits with (sl,sc), left unchanged otherwise, and items        *)
(* without a textEdit are returned unchanged.                              *)
(***************************************************************************)
CompletionOnTemplate(r) ==
    /\ r.From = "client"
    /\ ~r.Notif
    /\ r.Method = "textDocument/completion"
    /\ r.Params.Valid
    /\ r.Params.TriggerCharacter \notin {"<", "{"}
    /\ EndsInTempl(r.Params.URI)

\* the position p of the template in client coordinates of the Go file
MappedForth(sm, p) ==
    IF \E m \in sm : m.From.Line = p.Line + 1 /\ m.From.Col = p.Character
    THEN LET m == CHOOSE x \in sm : x.From.Line = p.Line + 1 /\ x.From.Col = p.Character
         IN  [Line |-> m.To.Line - 1, Character |-> m.To.Col - 1]
    ELSE p

ItemRewritten(sm, item, out) ==
    IF item.HasTextEdit
    THEN /\ out.Label = item.Label
         /\ out.HasTextEdit
         /\ out.TextEdit.NewText = item.TextEdit.NewText
         /\ out.TextEdit.Range.Start = MappedBack(sm, item.TextEdit.Range.Start, 1)
         /\ out.TextEdit.Range.End = MappedBack(sm, item.TextEdit.Range.End, 1)
    ELSE out = item

\* the calls of the default branch: the call, its result, the reply
CalledAndReplied(evs) ==
    /\ Len(evs) = 3
    /\ evs[1].Ev = "gopls.Call"
    /\ evs[2].Ev = "gopls.Result"
    /\ evs[3].Ev = "conn.Reply"

\* the items gopls returned: none when the call failed
ReturnedItems(evs) == IF evs[2].Params.ok THEN evs[2].Params.Items ELSE <<>>

\* the handler i calls gopls for the Go file, at the position sm gives
CallsMapped(i, sm) ==
    /\ Len(handlers'[i].evs) = 1
    /\ handlers'[i].evs[1].Ev = "gopls.Call"
    /\ handlers'[i].evs[1].Method = handlers[i].r.Method
    /\ handlers'[i].evs[1].Params.URI = SwapSuffix(handlers[i].r.Params.URI)
    /\ handlers'[i].evs[1].Params.Position = MappedForth(sm, handlers[i].r.Params.Position)
    /\ handlers'[i].evs[1].Params.TriggerCharacter = handlers[i].r.Params.TriggerCharacter

\* the handler i calls gopls with the params as they came
CallsUnmapped(i) ==
    handlers'[i].evs = <<[Ev |-> "gopls.Call", Method |-> handlers[i].r.Method,
                          Params |-> handlers[i].r.Params]>>

\* the handler i replies with the items sm gives and returns
RepliesMapped(i, sm) ==
    /\ CalledAndReplied(handlers'[i].evs)
    /\ Returned(handlers'[i])
    /\ SubSeq(handlers'[i].evs, 1, 2) = handlers[i].evs
    /\ Len(handlers'[i].evs[3].Params.Items) = Len(ReturnedItems(handlers'[i].evs))
    /\ \A k \in 1..Len(ReturnedItems(handlers'[i].evs)) :
           ItemRewritten(sm, ReturnedItems(handlers'[i].evs)[k],
                         handlers'[i].evs[3].Params.Items[k])

\* the handler i replies with the items as they are and returns
RepliesUnmapped(i) ==
    /\ CalledAndReplied(handlers'[i].evs)
    /\ Returned(handlers'[i])
    /\ SubSeq(handlers'[i].evs, 1, 2) = handlers[i].evs
    /\ handlers'[i].evs[3].Params.Items = ReturnedItems(handlers'[i].evs)

CachedMapOrNone(u) == IF u \in DOMAIN sourceMapCache THEN sourceMapCache[u] ELSE {}

IsOpen(u) == u \in DOMAIN documentContents

\* the step of the handler i is its call to gopls
IsCall(i) == Len(NewEvents(i)) = 1 /\ NewEvents(i)[1].Ev = "gopls.Call"

\* the step of the handler i is its reply
IsReply(i) == Len(NewEvents(i)) = 1 /\ NewEvents(i)[1].Ev = "conn.Reply"

C9_Original ==
    [][\A i \in 1..Len(handlers) :
         (StepOfHandler(i) /\ CompletionOnTemplate(handlers[i].r)
                           /\ IsOpen(handlers[i].r.Params.URI)) =>
             /\ IsCall(i) => CallsMapped(i, CachedMapOrNone(handlers[i].r.Params.URI))
             /\ IsReply(i) => RepliesMapped(i, CachedMapOrNone(handlers[i].r.Params.URI))]_vars

(***************************************************************************)
(* C9 as it holds.  The handler looks the SourceMap of U up in the cache   *)
(* twice, before it calls gopls and once the call has returned, and uses   *)
(* what it found.  When U had a cached SourceMap at the first lookup,      *)
(* gopls is called as claimed, with the positions of that map; when U had  *)
(* none (an open template whose text never parsed and generated) gopls is  *)
(* called with U itself and the position unchanged.  The second lookup is  *)
(* made for the template of the URI gopls was called with: it finds the    *)
(* SourceMap cached for U at that time when gopls was called with the      *)
(* generated URI, and nothing when gopls was called with U itself.  The    *)
(* items are rewritten as claimed by the SourceMap found at the second     *)
(* lookup and are returned unchanged when nothing was found.  The call and *)
(* the reply are sent with what the lookup before them found, also when    *)
(* the cache has changed since.                                            *)
(***************************************************************************)
\* the handler i is at its lookup before the call
LooksUpForCall(i) == handlers[i].evs = <<>> /\ NewEvents(i) = <<>>

\* the handler i is at its lookup after the call has returned
LooksUpForReply(i) == Len(handlers[i].evs) = 2 /\ NewEvents(i) = <<>>

\* the handler i goes on with what the cache holds for u
Finds(i, u) ==
    /\ handlers'[i].ok <=> u \in DOMAIN sourceMapCache
    /\ handlers'[i].ok => handlers'[i].sourceMap = sourceMapCache[u]
    /\ ~Returned(handlers'[i])

\* the handler i goes on without a SourceMap
FindsNothing(i) == ~handlers'[i].ok /\ ~Returned(handlers'[i])

C9_CompletionRewritten ==
    [][\A i \in 1..Len(handlers) :
         (StepOfHandler(i) /\ CompletionOnTemplate(handlers[i].r)) =>
             /\ LooksUpForCall(i) => Finds(i, handlers[i].r.Params.URI)
             /\ IsCall(i) => IF handlers[i].ok THEN CallsMapped(i, handlers[i].sourceMap)
                              ELSE CallsUnmapped(i)
             /\ LooksUpForReply(i) =>
                    IF handlers[i].evs[1].Params.URI = SwapSuffix(handlers[i].r.Params.URI)
                    THEN Finds(i, handlers[i].r.Params.URI)
                    ELSE FindsNothing(i)
             /\ IsReply(i) => IF handlers[i].ok THEN RepliesMapped(i, handlers[i].sourceMap)
                               ELSE RepliesUnmapped(i)
             /\ LooksUpForCall(i) \/ IsCall(i) \/ LooksUpForReply(i) \/ IsReply(i)
                    \/ (Len(handlers[i].evs) = 1 /\ Len(handlers'[i].evs) = 2
                          /\ handlers'[i].evs[2].Ev = "gopls.Result")]_vars

C9_Witness ==
    /\ ReturnedAlone(1)
    /\ CompletionOnTemplate(handlers[1].r)
    /\ handlers[1].r.Params.URI = <<"file:///a/", "b", ".templ">>
    /\ handlers[1].r.Params.Position = [Line |-> 0, Character |-> 0]
    /\ documentContents = (handlers[1].r.Params.URI :> <<"a", "a">>)
    /\ handlers[1].r.Params.URI \in DOMAIN sourceMapCache
    /\ CalledAndReplied(handlers[1].evs)
    /\ handlers[1].evs[1].Params.URI = <<"file:///a/", "b", "_templ.go">>
    /\ handlers[1].evs[1].Params.Position = [Line |-> 1, Character |-> 0]
    /\ Len(handlers[1].evs[3].Params.Items) = 1
    /\ handlers[1].evs[2].Params.Items[1].TextEdit.Range =
           [Start |-> [Line |-> 1, Character |-> 1], End |-> [Line |-> 1, Character |-> 2]]
    /\ handlers[1].evs[3].Params.Items[1].TextEdit.Range =
           [Start |-> [Line |-> 0, Character |-> 1], End |-> [Line |-> 0, Character |-> 2]]

(***************************************************************************)
(* C10: a completion request whose trigger character is "<" is answered    *)
(* with the static HTML snippet list and one whose trigger is "{" with the *)
(* static template snippet list; gopls is never called, neither cache is   *)
(* modified, and the reply is sent whatever the document URI and the state *)
(* of the caches.                                                          *)
(***************************************************************************)
SnippetCompletion(r, trigger) ==
    /\ r.From = "client"
    /\ ~r.Notif
    /\ r.Method = "textDocument/completion"
    /\ r.Params.Valid
    /\ r.Params.TriggerCharacter = trigger

\* the handler replied with the items and made no other call
OnlyReplied(h, items) ==
    IF Returned(h)
    THEN h.evs = <<[Ev |-> "conn.Reply", Method |-> "textDocument/completion",
                    Params |-> [Items |-> items]]>>
    ELSE h.evs = <<>>

C10_SnippetsWithoutGopls ==
    /\ [](\A i \in 1..Len(handlers) :
            /\ SnippetCompletion(handlers[i].r, "<") => OnlyReplied(handlers[i], htmlSnippets)
            /\ SnippetCompletion(handlers[i].r, "{")
                   => OnlyReplied(handlers[i], templateSnippets))
    /\ [][\A i \in 1..Len(handlers) :
            (/\ StepOfHandler(i)
             /\ SnippetCompletion(handlers[i].r, "<") \/ SnippetCompletion(handlers[i].r, "{"))
                => /\ Returned(handlers'[i])
                   /\ UNCHANGED <<documentContents, sourceMapCache, toClient, goplsOpen>>]_vars

C10_Witness ==
    /\ ReturnedAlone(1)
    /\ SnippetCompletion(handlers[1].r, "{")
    /\ handlers[1].r.Params.URI = <<"file:///a/", "b", ".templ">>
    /\ handlers[1].r.Params.URI \in DOMAIN documentContents
    /\ handlers[1].r.Params.URI \notin DOMAIN sourceMapCache
    /\ Len(handlers[1].evs) = 1
    /\ handlers[1].evs[1].Ev = "conn.Reply"
    /\ handlers[1].evs[1].Params.Items = templateSnippets
    /\ templateSnippets # htmlSnippets

(***************************************************************************)
(* C11: after the capability filter is applied to the result of gopls for  *)
(* initialize, the trigger characters of the reply contain "{" exactly     *)
(* once and "<" exactly once, for every reply of gopls, also one whose     *)
(* trigger characters already contain "{" or "<" and one with no           *)
(* completionProvider.                                                     *)
(***************************************************************************)
Occurrences(seq, ch) == Cardinality({i \in 1..Len(seq) : seq[i] = ch})

InitializeHandled(h) ==
    h.r.From = "client" /\ ~h.r.Notif /\ h.r.Method = "initialize" /\ Returned(h)

C11_TriggersOnce ==
    \A i \in 1..Len(handlers) :
        InitializeHandled(handlers[i]) =>
            /\ Len(handlers[i].evs) = 3
            /\ handlers[i].evs[3].Ev = "conn.Reply"
            /\ handlers[i].evs[3].Params.HasCompletionProvider
            /\ Occurrences(handlers[i].evs[3].Params.TriggerCharacters, "{") = 1
            /\ Occurrences(handlers[i].evs[3].Params.TriggerCharacters, "<") = 1

(***************************************************************************)
(* C12: as claimed, a notification of gopls whose message field begins     *)
(* with "Do not edit this file!" never reaches the client, and every other *)
(* notification of gopls is delivered to the client.                       *)
(***************************************************************************)
FromGopls(r) == r.From = "gopls" /\ r.Notif

BeginsDoNotEdit(r) ==
    /\ r.Params.Valid
    /\ "Message" \in DOMAIN r.Params
    /\ Len(r.Params.Message) > 0
    /\ r.Params.Message[1] = "Do not edit this file!"

NothingDelivered(h) == h.evs = <<>>

DeliveredAsIs(h) ==
    Returned(h) =>
        h.evs = <<[Ev |-> "client.Notify", Method |-> h.r.Method, Params |-> h.r.Params]>>

Delivered(h) ==
    Returned(h) =>
        /\ Len(h.evs) = 1
        /\ h.evs[1].Ev = "client.Notify"
        /\ h.evs[1].Method = h.r.Method

C12_Original ==
    \A i \in 1..Len(handlers) :
        FromGopls(handlers[i].r) =>
            IF BeginsDoNotEdit(handlers[i].r) THEN NothingDelivered(handlers[i])
            ELSE Delivered(handlers[i])

(***************************************************************************)
(* C12 as it holds: a window/showMessage of gopls whose message begins     *)
(* with "Do not edit this file!" never reaches the client; a notification  *)
(* of another method is delivered as it is, whatever its message; a        *)
(* publishDiagnostics is delivered exactly when its params decode and its  *)
(* handler found a cached SourceMap for the template of its URI, and is    *)
(* dropped otherwise.                                                      *)
(***************************************************************************)
\* the handler of the diagnostics has looked the SourceMap up and found one
DiagnosticsRewritable(h) == h.r.Params.Valid /\ ~BeforeLookup(h) /\ h.ok

C12_ShowMessageSuppressed ==
    \A i \in 1..Len(handlers) :
        FromGopls(handlers[i].r) =>
            CASE handlers[i].r.Method = "window/showMessage" ->
                   IF BeginsDoNotEdit(handlers[i].r) THEN NothingDelivered(handlers[i])
                   ELSE DeliveredAsIs(handlers[i])
              [] handlers[i].r.Method = "textDocument/publishDiagnostics" ->
                   IF DiagnosticsRewritable(handlers[i]) THEN Delivered(handlers[i])
                   ELSE NothingDelivered(handlers[i])
              [] OTHER -> DeliveredAsIs(handlers[i])

C12_Witness ==
    /\ ReturnedAlone(1)
    /\ FromGopls(handlers[1].r)
    /\ handlers[1].r.Method = "window/showMessage"
    /\ handlers[1].r.Params.Valid
    /\ handlers[1].r.Params.Message = <<"Do not edit this file!", " It is generated.">>
    /\ handlers[1].evs = <<>>

(***************************************************************************)
(* C13: the URI swap is an involution on recognized names and inert        *)
(* elsewhere: for every URI u whose basename ends in .templ, the rewrite   *)
(* to the generated URI followed by the rewrite back to the template URI   *)
(* yields u; and a URI that is neither a template nor a generated URI is   *)
(* never rewritten in a message, in either direction: a notification of    *)
(* the client for it leaves both caches untouched and is forwarded as it   *)
(* is.                                                                     *)
(***************************************************************************)
SwapIsInvolution == \A u \in {U1, U2} : TemplateURI(GeneratedURI(u)) = u

Unrecognized(r) ==
    /\ r.Params.Valid
    /\ "URI" \in DOMAIN r.Params
    /\ ~EndsInTempl(r.Params.URI)
    /\ ~EndsInGo(r.Params.URI)

CarriesURI(ev, u) ==
    (ev.Ev \in {"gopls.Notify", "gopls.Call", "client.Notify"}) => ev.Params.URI = u

\* the handler of a notification of the client forwards it as it is
ForwardedUntouched(h) ==
    (Returned(h) /\ h.r.Notif) =>
        h.evs = <<[Ev |-> "gopls.Notify", Method |-> h.r.Method, Params |-> h.r.Params]>>

\* the messages of the client for a URI that is no template
ClientInert ==
    /\ [](\A i \in 1..Len(handlers) :
            (handlers[i].r.From = "client" /\ Unrecognized(handlers[i].r)) =>
                /\ \A k \in 1..Len(handlers[i].evs) :
                       CarriesURI(handlers[i].evs[k], handlers[i].r.Params.URI)
                /\ ForwardedUntouched(handlers[i]))
    /\ [][\A i \in 1..Len(handlers) :
            (StepOfHandler(i) /\ handlers[i].r.From = "client"
                              /\ Unrecognized(handlers[i].r))
                => UNCHANGED <<documentContents, sourceMapCache, toClient>>]_vars

\* the messages of gopls for a URI that is no generated file
GoplsInert ==
    [](\A i \in 1..Len(handlers) :
         (handlers[i].r.From = "gopls" /\ Unrecognized(handlers[i].r)) =>
             \A k \in 1..Len(handlers[i].evs) :
                 CarriesURI(handlers[i].evs[k], handlers[i].r.Params.URI))

C13_SwapInvolutionInertElsewhere ==
    /\ [](SwapIsInvolution)
    /\ ClientInert
    /\ GoplsInert

(***************************************************************************)
(* C15: when gopls answers a forwarded request of the client with an       *)
(* error, the client receives an error response, not a successful response *)
(* with a null or default result.                                          *)
(***************************************************************************)
\* the handler of the request called gopls, the call failed and the handler
\* has returned
UpstreamFailed(h) ==
    /\ h.r.From = "client"
    /\ ~h.r.Notif
    /\ Returned(h)
    /\ \E k \in 1..Len(h.evs) : h.evs[k].Ev = "gopls.Result" /\ ~h.evs[k].Params.ok

C15_ErrorPropagated ==
    \A i \in 1..Len(handlers) :
        UpstreamFailed(handlers[i]) =>
            /\ handlers[i].evs[Len(handlers[i].evs)].Ev = "conn.ReplyWithError"
            /\ \A k \in 1..Len(handlers[i].evs) : handlers[i].evs[k].Ev # "conn.Reply"

(***************************************************************************)
(* C16: a formatting request is handled locally: gopls is not called and   *)
(* neither cache is modified.  As claimed: if the stored template text,    *)
(* with L newlines, parses, the reply is exactly one edit replacing the    *)
(* range (0,0)..(L+1,0) by the canonical text and exactly one              *)
(* diagnostic-clear is enqueued; if it fails to parse, the reply is an     *)
(* empty list of edits and one parse diagnostic is enqueued instead.       *)
(***************************************************************************)
FormattingRequest(r) ==
    /\ r.From = "client"
    /\ ~r.Notif
    /\ r.Method = "textDocument/formatting"
    /\ r.Params.Valid

StoredText(u) == IF u \in DOMAIN documentContents THEN documentContents[u] ELSE <<>>

Newlines(text) == Cardinality({i \in 1..Len(text) : text[i] = "\n"})

FormattingReply(edits) ==
    [Ev |-> "conn.Reply", Method |-> "textDocument/formatting", Params |-> edits]

Written(text) == WriteTemplate(ParseString(text).template)

WholeTextEdit(text) ==
    [Range |-> [Start |-> [Line |-> 0, Character |-> 0],
                End |-> [Line |-> Newlines(text) + 1, Character |-> 0]],
     NewText |-> Written(text).text]

\* the handler queued msg and replied with edits, and made no other call
QueuedAndReplied(h, msg, edits) ==
    h.evs = <<[Ev |-> "toClient", Method |-> msg.Method, Params |-> msg.Params],
              FormattingReply(edits)>>

\* the handler works on the text the Document Store holds, none when the
\* document is not stored, and changes neither cache nor what gopls holds
WorksLocally(i) ==
    /\ UNCHANGED <<documentContents, sourceMapCache, goplsOpen>>
    /\ PlacesWhatItLogs(i)
    /\ (~handlers[i].got /\ handlers'[i].got)
           => handlers'[i].text = StoredText(handlers[i].r.Params.URI)

FormattingLocal ==
    [][\A i \in 1..Len(handlers) :
         (StepOfHandler(i) /\ FormattingRequest(handlers[i].r)) => WorksLocally(i)]_vars

C16_Original ==
    /\ FormattingLocal
    /\ [](\A i \in 1..Len(handlers) :
            (Returned(handlers[i]) /\ FormattingRequest(handlers[i].r)) =>
                IF Parses(handlers[i].text)
                THEN QueuedAndReplied(handlers[i], ClearRequest(handlers[i].r.Params.URI),
                                      <<WholeTextEdit(handlers[i].text)>>)
                ELSE QueuedAndReplied(handlers[i],
                                      ParseErrorRequest(handlers[i].r.Params.URI,
                                                        ParseString(handlers[i].text)),
                                      <<>>))

(***************************************************************************)
(* C16 as it holds: a formatting request is handled locally.  If the       *)
(* stored text parses and the template writes its canonical text, the      *)
(* reply is the one edit of the range (0,0)..(L+1,0) by that text and one  *)
(* clear is enqueued; if the template fails to write itself, the one clear *)
(* is enqueued and the reply is the empty list; if the text fails to parse *)
(* with a ParseError, one parse diagnostic is enqueued and the reply is    *)
(* the empty list; if it fails with another error, nothing is enqueued and *)
(* the reply is the empty list.                                            *)
(***************************************************************************)
FormattedLocally(h) ==
    IF Parses(h.text)
    THEN IF Written(h.text).ok
         THEN QueuedAndReplied(h, ClearRequest(h.r.Params.URI), <<WholeTextEdit(h.text)>>)
         ELSE QueuedAndReplied(h, ClearRequest(h.r.Params.URI), <<>>)
    ELSE IF ParseString(h.text).isParseError
         THEN QueuedAndReplied(h, ParseErrorRequest(h.r.Params.URI, ParseString(h.text)), <<>>)
         ELSE h.evs = <<FormattingReply(<<>>)>>

C16_FormattingLocal ==
    /\ [][\A i \in 1..Len(handlers) :
            (StepOfHandler(i) /\ FormattingRequest(handlers[i].r)) => WorksLocally(i)]_vars
    /\ [](\A i \in 1..Len(handlers) :
            (Returned(handlers[i]) /\ FormattingRequest(handlers[i].r))
                => FormattedLocally(handlers[i]))

C16_Witness ==
    /\ ReturnedAlone(1)
    /\ FormattingRequest(handlers[1].r)
    /\ handlers[1].r.Params.URI \in DOMAIN documentContents
    /\ documentContents[handlers[1].r.Params.URI] = <<"\n", "a">>
    /\ Len(handlers[1].evs) = 2
    /\ handlers[1].evs[1].Ev = "toClient"
    /\ handlers[1].evs[1].Params.Diagnostics = <<>>
    /\ handlers[1].evs[2].Ev = "conn.Reply"
    /\ Len(handlers[1].evs[2].Params) = 1
    /\ handlers[1].evs[2].Params[1].Range =
           [Start |-> [Line |-> 0, Character |-> 0], End |-> [Line |-> 2, Character |-> 0]]
    /\ handlers[1].evs[2].Params[1].NewText = <<"fmt", "\n", "a">>

(***************************************************************************)
(* C19: a publishDiagnostics of gopls whose URI, after a trailing          *)
(* _templ.go is removed and .templ is appended, has no SourceMapCache      *)
(* entry (the template was never opened, was opened only with parse        *)
(* failures, is closed, or the URI is an ordinary Go file) is dropped:     *)
(* nothing is sent to the client for it and both caches are unchanged.     *)
(***************************************************************************)
\* the URI without a trailing _templ.go, with .templ appended
DerivedTemplateURI(u) == IF EndsInGo(u) THEN SwapBack(u) ELSE u \o <<".templ">>

GoplsDiagnosticsFor(r) ==
    /\ r.From = "gopls"
    /\ r.Notif
    /\ r.Method = "textDocument/publishDiagnostics"
    /\ r.Params.Valid

\* the handler i looks the SourceMap up and the cache has none for the
\* template of the URI
DiagnosticsWithoutMap(i) ==
    /\ GoplsDiagnosticsFor(handlers[i].r)
    /\ BeforeLookup(handlers[i])
    /\ DerivedTemplateURI(handlers[i].r.Params.URI) \notin DOMAIN sourceMapCache

\* the handler returns and has sent nothing
Dropped(i) == Returned(handlers'[i]) /\ handlers'[i].evs = <<>>

C19_DiagnosticsDropped ==
    [][\A i \in 1..Len(handlers) :
         /\ (StepOfHandler(i) /\ GoplsDiagnosticsFor(handlers[i].r))
                => UNCHANGED <<documentContents, sourceMapCache, toClient>>
         /\ (StepOfHandler(i) /\ DiagnosticsWithoutMap(i)) => Dropped(i)]_vars

\* the template is open, but only with a text that does not parse
C19_Witness ==
    /\ ReturnedAlone(1)
    /\ GoplsDiagnosticsFor(handlers[1].r)
    /\ handlers[1].r.Params.URI = <<"file:///a/", "b", "_templ.go">>
    /\ Len(handlers[1].r.Params.Diagnostics) = 1
    /\ documentContents = (<<"file:///a/", "b", ".templ">> :> <<"!">>)
    /\ sourceMapCache = EmptyMap
    /\ ~handlers[1].ok
    /\ handlers[1].evs = <<>>

(***************************************************************************)
(* C20: gopls sees a well-formed document lifecycle for every generated    *)
(* URI G: with handlers run one at a time, gopls is never forwarded a      *)
(* didChange, didSave or didClose for G unless a didOpen for G was         *)
(* forwarded earlier and no didClose for G since; in particular not after  *)
(* a didOpen whose text failed to parse followed by a didChange whose text *)
(* parses.                                                                 *)
(***************************************************************************)
ForwardedOnOpenFile(ev) ==
    (/\ ev.Ev = "gopls.Notify"
     /\ ev.Method \in {"textDocument/didChange", "textDocument/didSave",
                       "textDocument/didClose"}
     /\ EndsInGo(ev.Params.URI))
        => ev.Params.URI \in DOMAIN goplsOpen

C20_LifecycleWellFormed ==
    [][\A i \in 1..Len(handlers) :
         (StepOfHandler(i) /\ ~overlap) =>
             \A k \in 1..Len(NewEvents(i)) : ForwardedOnOpenFile(NewEvents(i)[k])]_vars

(***************************************************************************)
(* C14: every client request (initialize, completion, formatting, any      *)
(* other method) eventually receives exactly one reply, given that gopls   *)
(* answers or fails each call: a handler that has returned has replied     *)
(* once, no handler replies twice, and every handler that was started      *)
(* returns; also when the params do not unmarshal, the source map or the   *)
(* document is missing, the parse fails, gopls fails or toClient is full.  *)
(***************************************************************************)
\* the conn.Reply calls among the calls a handler made
Replies(evs) == Cardinality({k \in DOMAIN evs : evs[k].Ev = "conn.Reply"})

RepliedOnce(h) == (Returned(h) <=> Replies(h.evs) = 1) /\ Replies(h.evs) <= 1

\* the handler i is the one of a request and has not returned
InFlight(i) == i <= Len(handlers) /\ ~handlers[i].r.Notif /\ ~Returned(handlers[i])

Answered(i) ==
    /\ i <= Len(handlers)
    /\ ~handlers[i].r.Notif
    /\ Returned(handlers[i])
    /\ Replies(handlers[i].evs) = 1

C14_EveryRequestAnswered ==
    /\ [](\A i \in 1..Len(handlers) : ~handlers[i].r.Notif => RepliedOnce(handlers[i]))
    /\ \A i \in 1..MaxHandlers : InFlight(i) ~> Answered(i)

\* a formatting handler has replied after its message went on toClient, which
\* is full now, and the handler of a request whose params did not unmarshal
\* has replied too
C14_Witness ==
    /\ Len(toClient) = capacity
    /\ \E i \in 1..Len(handlers) :
          handlers[i].r.Method = "textDocument/formatting" /\ Answered(i)
    /\ \E i \in 1..Len(handlers) :
          /\ handlers[i].r.Method # "textDocument/formatting"
          /\ ~handlers[i].r.Params.Valid
          /\ Answered(i)

(***************************************************************************)
(* C17: cancelling the context of the proxy tears down the loop of the     *)
(* worker: once the context is cancelled the worker eventually terminates, *)
(* having drained what is queued, and no handler stays blocked forever on  *)
(* a send to toClient.                                                     *)
(***************************************************************************)
Cancelled == context = "cancelled"

WorkerTerminated == worker.pc = "closed"

\* the handler i waits to send on the full toClient
BlockedOnOutbox(i) == i <= Len(handlers) /\ handlers[i].pc \in {"Parse", "Send"} /\ ~Room

C17_CancelTearsDown ==
    /\ Cancelled ~> (WorkerTerminated /\ toClient = <<>>)
    /\ \A i \in 1..MaxHandlers :
          (Cancelled /\ BlockedOnOutbox(i)) ~> ~BlockedOnOutbox(i)

\* no handler stays blocked on a send once the context is cancelled
C17_NoSenderBlocked ==
    \A i \in 1..MaxHandlers : (Cancelled /\ BlockedOnOutbox(i)) ~> ~BlockedOnOutbox(i)

(***************************************************************************)
(* C18: toClient is a bounded FIFO drained by one worker: at most 32       *)
(* messages are ever pending; every step that changes the queue either    *)
(* places a message at its end or is the worker taking the message at its  *)
(* front, and the worker sends the message it took before it takes the     *)
(* next, so that the messages are sent in the order the handlers placed    *)
(* them; a failed send leaves the worker in its loop, and as long as       *)
(* messages are queued the worker keeps taking them.                       *)
(***************************************************************************)
Placed ==
    /\ Len(toClient') = Len(toClient) + 1
    /\ SubSeq(toClient', 1, Len(toClient)) = toClient
    /\ \E i \in 1..Len(handlers) : StepOfHandler(i)

\* the worker, in its loop, takes the message at the front
TakenFromFront ==
    /\ toClient # <<>>
    /\ toClient' = Tail(toClient)
    /\ worker.pc = "range"
    /\ worker'.r = Head(toClient)
    /\ worker'.pc = "sendToClient"

\* the worker has sent, or failed to send, the message it took
Sent ==
    /\ worker.pc = "sendToClient"
    /\ worker'.r = worker.r
    /\ toClient' = toClient

SendFailed == Sent /\ worker'.err

C18_OutboxFIFO ==
    /\ [](Len(toClient) <= 32)
    /\ [][toClient' # toClient => (Placed \/ TakenFromFront)]_vars
    /\ [][worker' # worker => (TakenFromFront \/ Sent)]_vars
    /\ [][SendFailed => worker'.pc = "range"]_vars
    /\ (<>[](toClient # <<>>) => []<><<TakenFromFront>>_vars)

\* the queue is full and holds different messages, a handler waits to place
\* one more, and the send of the message the worker took last has failed
C18_Witness ==
    /\ Len(toClient) = 32
    /\ \E i \in 1..Len(toClient) : toClient[i] # toClient[1]
    /\ \E i \in 1..Len(handlers) : BlockedOnOutbox(i)
    /\ worker.err
    /\ worker.r # NoMessage

(***************************************************************************)
(* C21: concurrent didChange handlers on one open template URI U lose no   *)
(* update: when two didChange handlers for U whose resulting texts both    *)
(* parse have finished, under any interleaving, the SourceMapCache entry   *)
(* of U is the map generated from the text the Document Store holds for U, *)
(* and the last full replace forwarded to gopls for the generated URI of U *)
(* is the Go text generated from that same text.                           *)
(***************************************************************************)
\* the handler of a didChange for U1 has finished, its text parses and
\* generates
ChangeFinished(h) ==
    /\ Returned(h)
    /\ TemplateNotification(h.r, DidChange)
    /\ h.r.Params.URI = U1
    /\ h.got
    /\ Generates(h.text)

\* two of them ran next to each other on the open template, which gopls
\* holds open too
BothChangesFinished ==
    /\ Len(handlers) = 2
    /\ \A i \in 1..2 : ChangeFinished(handlers[i])
    /\ U1 \in DOMAIN documentContents
    /\ U1 \in DOMAIN sourceMapCache
    /\ SwapSuffix(U1) \in DOMAIN goplsOpen

C21_NoLostUpdate ==
    BothChangesFinished =>
        /\ sourceMapCache[U1] = SourceMapFor(documentContents[U1])
        /\ goplsOpen[SwapSuffix(U1)] = GoTextFor(documentContents[U1])

====
